---- MODULE Spec2Model ----
(***************************************************************************)
(* A model of the flexsearch repository's in-memory inverted index          *)
(* (services/inversearch) and of its result caches (services/inversearch    *)
(* search cache and services/bm25 cache).                                   *)
(*                                                                          *)
(* Strings are sequences of character codes (ASCII): a text such as "a b"   *)
(* is <<97, 32, 98>>.  The texts used are ASCII letters and spaces, so a    *)
(* byte index and a character index coincide and the encoder's numeric      *)
(* split (which only acts on digits) leaves them unchanged.                 *)
(***************************************************************************)
EXTENDS Integers, Sequences, FiniteSets, TLC

VARIABLES
    cfg,        \* the Index's configuration fields (fixed by Index::new)
    map,        \* Index.map : term -> posting list (Vec<DocId>)
    ctx,        \* Index.ctx : <<shard(keyword), term>> -> posting list
    reg,        \* Index.reg : DocId -> refs (Map form) or DocId -> <<>> (Set form)
    last,       \* the last operation applied and, for a search, its result
    sc,         \* the SearchCache of a CachedSearch (search/cache.rs)
    computed,   \* history: cache key -> the index contents its entry was computed on
    now,        \* the clock (Instant::now), in ticks
    aix,        \* the AsyncIndex: its RwLock and the tasks using it (async_.rs)
    tgt,        \* a second Index, the target of an import (serialize.rs)
    bc,         \* the bm25 result Cache (bm25 index/cache.rs)
    doc,        \* a Document's own Register and store (document/mod.rs)
    enc         \* an Encoder with its two caches (encoder/mod.rs)

vars == <<cfg, map, ctx, reg, last, sc, computed, now, aix, tgt, bc, doc, enc>>

\* what the operations of the Index leave alone
notIndex == <<sc, computed, now, aix, tgt, bc>>

-----------------------------------------------------------------------------
(* Bounds of the model *)

MaxDocId == 2

DocIds == 1..MaxDocId

-----------------------------------------------------------------------------
(* Sequence helpers *)

SeqToSet(s) == {s[i] : i \in DOMAIN s}

Contains(s, e) == \E i \in DOMAIN s : s[i] = e

\* Vec::pop / Vec::truncate(len - 1)
DropLast(s) == SubSeq(s, 1, Len(s) - 1)

\* first index (1-based) of e in s, 0 when absent: iter().position()
Position(s, e) ==
    IF Contains(s, e) THEN CHOOSE i \in DOMAIN s : s[i] = e /\ \A j \in 1..(i - 1) : s[j] # e
    ELSE 0

\* Vec::swap_remove(pos): the last element takes the place of the removed one
SwapRemove(s, pos) ==
    IF pos = Len(s) THEN DropLast(s)
    ELSE [i \in 1..(Len(s) - 1) |-> IF i = pos THEN s[Len(s)] ELSE s[i]]

Count(s, e) == Cardinality({i \in DOMAIN s : s[i] = e})

Min(a, b) == IF a <= b THEN a ELSE b

RECURSIVE Flatten(_)
Flatten(ss) == IF ss = <<>> THEN <<>> ELSE Head(ss) \o Flatten(Tail(ss))

\* lexicographic order on strings (Rust str comparison on ASCII)
RECURSIVE StrGt(_, _)
StrGt(a, b) ==
    IF a = <<>> THEN FALSE
    ELSE IF b = <<>> THEN TRUE
    ELSE IF Head(a) # Head(b) THEN Head(a) > Head(b)
    ELSE StrGt(Tail(a), Tail(b))

-----------------------------------------------------------------------------
(* Encoder with the default options (normalize, split on non-alphanumerics, *)
(* minlength 1, dedupe, no filter/mapper/matcher/stemmer/replacer).         *)

ToLower(c) == IF c >= 65 /\ c <= 90 THEN c + 32 ELSE c

IsAlnum(c) == \/ (c >= 48 /\ c <= 57)
              \/ (c >= 65 /\ c <= 90)
              \/ (c >= 97 /\ c <= 122)

apply_normalize(s) == [i \in DOMAIN s |-> ToLower(s[i])]

\* Regex::split on [^\p{L}\p{N}]+ : the words between separators, empty
\* words included at this stage (encode drops them)
RECURSIVE SplitFrom(_, _, _)
SplitFrom(s, i, cur) ==
    IF i > Len(s) THEN <<cur>>
    ELSE IF IsAlnum(s[i]) THEN SplitFrom(s, i + 1, Append(cur, s[i]))
    ELSE <<cur>> \o SplitFrom(s, i + 1, <<>>)

apply_split(s) == SplitFrom(s, 1, <<>>)

\* the word loop of Encoder::encode on the fast path (no transformations)
RECURSIVE EncodeWords(_, _)
EncodeWords(words, acc) ==
    IF words = <<>> THEN acc
    ELSE LET w == Head(words) IN
         IF w = <<>> \/ Len(w) < 1 \/ Len(w) > 1024 \/ Contains(acc, w)
         THEN EncodeWords(Tail(words), acc)
         ELSE EncodeWords(Tail(words), Append(acc, w))

encode(s) == EncodeWords(apply_split(apply_normalize(s)), <<>>)

-----------------------------------------------------------------------------
(* Keystore shard hash: crc = (crc << 8) ^ (crc >> 24) ^ c on u32, mod 2^8  *)

RECURSIVE Xor(_, _)
Xor(a, b) ==
    IF a = 0 THEN b
    ELSE IF b = 0 THEN a
    ELSE ((a + b) % 2) + 2 * Xor(a \div 2, b \div 2)

\* the u32 crc is held as its four bytes <<b3, b2, b1, b0>>: (crc << 8) ^ (crc >> 24)
\* rotates it left by one byte, and an ASCII character only touches the low byte
RECURSIVE Crc(_, _)
Crc(s, crc) ==
    IF s = <<>> THEN crc
    ELSE Crc(Tail(s), <<crc[2], crc[3], crc[4], Xor(crc[1], Head(s))>>)

keystore_hash_str(s) == Crc(s, <<0, 0, 0, 0>>)[4] % 256

-----------------------------------------------------------------------------
(* Index containers.  A KeystoreMap is held as a function whose domain is   *)
(* the set of keys present; the shard of a key is keystore_hash_str(key).   *)
(* An index value is the record [map, ctx, reg].                            *)

Lookup(m, k) == IF k \in DOMAIN m THEN m[k] ELSE <<>>

MapSet(m, k, v) == [x \in (DOMAIN m) \cup {k} |-> IF x = k THEN v ELSE m[x]]

MapDel(m, ks) == [x \in (DOMAIN m) \ ks |-> m[x]]

EmptyMap == [x \in {} |-> <<>>]

EmptyIndex == [map |-> EmptyMap, ctx |-> EmptyMap, reg |-> EmptyMap]

\* key of ctx.index[hash(keyword)][term]
CtxKey(keyword, term) == <<keystore_hash_str(keyword), term>>

\* Index::contains
contains(ix, id) == id \in DOMAIN ix.reg

\* reg.index.entry(hash).or_insert_with(..).entry(id).or_insert_with(Vec::new).push(ref)
RegPush(r, id, ref) == MapSet(r, id, Append(Lookup(r, id), ref))

\* Index::clear without the clearing of the Register
clear_postings(ix) == [map |-> EmptyMap, ctx |-> EmptyMap, reg |-> ix.reg]

\* Index::clear
clear(ix) == EmptyIndex

-----------------------------------------------------------------------------
(* Index::push_index.  dupes is the caller's dupes map (its key set);       *)
(* keyword is <<>> for None and <<kw>> for Some(kw).  The score argument is *)
(* not stored by the code and is left out.  Yields the index and the dupes. *)

\* push_index without the test of the dupes map: every call pushes
push_index_undeduped(c, ix, dupes, term, id, append, keyword) ==
    LET d2 == dupes \cup {term} \cup SeqToSet(keyword) IN
    IF keyword # <<>>
    THEN LET key == CtxKey(keyword[1], term) IN
         [ix |-> [map |-> ix.map,
                  ctx |-> MapSet(ix.ctx, key, Append(Lookup(ix.ctx, key), id)),
                  reg |-> IF c.fastupdate
                          THEN RegPush(ix.reg, id, <<"ctx", keyword[1], term>>)
                          ELSE ix.reg],
          dupes |-> d2]
    ELSE [ix |-> [map |-> MapSet(ix.map, term, Append(Lookup(ix.map, term), id)),
                  ctx |-> ix.ctx,
                  reg |-> IF c.fastupdate
                          THEN RegPush(ix.reg, id, <<"map", term>>)
                          ELSE ix.reg],
          dupes |-> d2]

push_index(c, ix, dupes, term, id, append, keyword) ==
    LET has_dupe == term \in dupes
        has_keyword_dupe == IF keyword # <<>> THEN keyword[1] \in dupes ELSE FALSE
    IN
    IF ~has_dupe \/ (keyword # <<>> /\ ~has_keyword_dupe)
    THEN
        LET d2 == dupes \cup {term} \cup SeqToSet(keyword) IN
        IF keyword # <<>>
        THEN LET key == CtxKey(keyword[1], term)
                 doc_ids_vec == Lookup(ix.ctx, key)
                 do == ~append \/ ~Contains(doc_ids_vec, id)
             IN [ix |-> [map |-> ix.map,
                         ctx |-> MapSet(ix.ctx, key,
                                        IF do THEN Append(doc_ids_vec, id) ELSE doc_ids_vec),
                         reg |-> IF do /\ c.fastupdate
                                 THEN RegPush(ix.reg, id, <<"ctx", keyword[1], term>>)
                                 ELSE ix.reg],
                 dupes |-> d2]
        ELSE LET doc_ids_vec == Lookup(ix.map, term)
                 do == ~append \/ ~Contains(doc_ids_vec, id)
             IN [ix |-> [map |-> MapSet(ix.map, term,
                                        IF do THEN Append(doc_ids_vec, id) ELSE doc_ids_vec),
                         ctx |-> ix.ctx,
                         reg |-> IF do /\ c.fastupdate
                                 THEN RegPush(ix.reg, id, <<"map", term>>)
                                 ELSE ix.reg],
                 dupes |-> d2]
    ELSE [ix |-> ix, dupes |-> dupes]

-----------------------------------------------------------------------------
(* The tokens add_document pushes for one term, in push order.  A request   *)
(* is [dk, term, keyword]: dk names the dupes map handed to push_index      *)
(* ("dupes" or "dupes_ctx").                                                *)

Req(dk, term, keyword) == [dk |-> dk, term |-> term, keyword |-> keyword]

\* TokenizeMode::Full, term_length > 2: for x in 0..len, for y in (x+1..=len).rev()
FullTokens(term) ==
    Flatten([x1 \in 1..Len(term) |->
               [k \in 1..(Len(term) - x1 + 1) |-> SubSeq(term, x1, Len(term) - k + 1)]])

\* TokenizeMode::Reverse / Bidirectional: for x in (1..len).rev(): term[(rtl ? len-1-x : x)..]
ReverseTokens(term, rtl) ==
    [k \in 1..(Len(term) - 1) |->
        LET x == Len(term) - k
            start == IF rtl THEN Len(term) - 1 - x ELSE x
        IN SubSeq(term, start + 1, Len(term))]

\* add_forward: the growing token of the characters taken left to right (right to left if rtl)
add_forward(term, rtl) ==
    [k \in 1..Len(term) |->
        [j \in 1..k |-> term[IF rtl THEN Len(term) - j + 1 ELSE j]]]

\* add_context: the (term, keyword) pairs pushed for the keyword at loop index i
RECURSIVE ContextFrom(_, _, _, _, _, _)
ContextFrom(c, encoded, i, x, size, dupes_inner) ==
    LET word_length == Len(encoded)
        keyword == encoded[(IF c.rtl THEN word_length - 1 - i ELSE i) + 1]
        term_idx == IF c.rtl THEN word_length - 1 - i - x ELSE i + x
    IN
    IF x >= size \/ term_idx >= word_length \/ term_idx < 0 THEN <<>>
    ELSE LET context_term == encoded[term_idx + 1] IN
         IF context_term # <<>> /\ context_term \notin dupes_inner
         THEN LET swap == c.bidirectional /\ StrGt(context_term, keyword)
                  pair == IF swap THEN <<keyword, context_term>>
                                  ELSE <<context_term, keyword>>
              IN <<pair>> \o ContextFrom(c, encoded, i, x + 1, size,
                                         dupes_inner \cup {context_term})
         ELSE ContextFrom(c, encoded, i, x + 1, size, dupes_inner)

add_context(c, encoded, i, dk) ==
    LET word_length == Len(encoded)
        keyword == encoded[(IF c.rtl THEN word_length - 1 - i ELSE i) + 1]
        size == Min(c.depth, IF c.rtl THEN i + 1 ELSE word_length - i)
        pairs == ContextFrom(c, encoded, i, 1, size, {keyword})
    IN [k \in DOMAIN pairs |-> Req(dk, pairs[k][1], <<pairs[k][2]>>)]

MapReqs(tokens) == [k \in DOMAIN tokens |-> Req("dupes", tokens[k], <<>>)]

add_strict(c, encoded, i, term) ==
    <<Req("dupes", term, <<>>)>>
    \o (IF c.depth > 0 /\ Len(encoded) > 1 /\ i < Len(encoded) - 1
        THEN add_context(c, encoded, i, "dupes") ELSE <<>>)

\* the match on index.tokenize in add_document, for loop index i (0-based)
TermRequests(c, encoded, i) ==
    LET word_length == Len(encoded)
        term == encoded[(IF c.rtl THEN word_length - 1 - i ELSE i) + 1]
        term_length == Len(term)
        context == IF c.depth > 0 THEN add_context(c, encoded, i, "dupes_ctx") ELSE <<>>
    IN
    CASE c.tokenize = "full" ->
            IF term_length > 2 THEN MapReqs(FullTokens(term))
            ELSE add_strict(c, encoded, i, term)
      [] c.tokenize = "bidirectional" ->
            (IF term_length > 1 THEN MapReqs(ReverseTokens(term, c.rtl)) ELSE <<>>)
            \o MapReqs(add_forward(term, c.rtl)) \o context
      [] c.tokenize = "reverse" ->
            (IF term_length > 1 THEN MapReqs(ReverseTokens(term, c.rtl)) ELSE <<>>)
            \o context
      [] c.tokenize = "forward" ->
            (IF term_length > 1 THEN MapReqs(add_forward(term, c.rtl))
             ELSE <<Req("dupes", term, <<>>)>>)
            \o context
      [] OTHER -> add_strict(c, encoded, i, term)

\* st is [ix, dupes, dupes_ctx]
RECURSIVE PushAll(_, _, _, _, _)
PushAll(c, st, reqs, id, append) ==
    IF reqs = <<>> THEN st
    ELSE LET r == Head(reqs)
             out == push_index(c, st.ix, IF r.dk = "dupes" THEN st.dupes ELSE st.dupes_ctx,
                               r.term, id, append, r.keyword)
         IN PushAll(c,
                    [ix |-> out.ix,
                     dupes |-> IF r.dk = "dupes" THEN out.dupes ELSE st.dupes,
                     dupes_ctx |-> IF r.dk = "dupes" THEN st.dupes_ctx ELSE out.dupes],
                    Tail(reqs), id, append)

\* the loop "for i in 0..word_length" of add_document
RECURSIVE AddLoop(_, _, _, _, _, _)
AddLoop(c, st, encoded, i, id, append) ==
    IF i >= Len(encoded) THEN st
    ELSE LET term == encoded[(IF c.rtl THEN Len(encoded) - 1 - i ELSE i) + 1] IN
         IF Len(term) = 0 \/ (c.depth = 0 /\ term \in st.dupes)
         THEN AddLoop(c, st, encoded, i + 1, id, append)
         ELSE AddLoop(c, PushAll(c, st, TermRequests(c, encoded, i), id, append),
                      encoded, i + 1, id, append)

-----------------------------------------------------------------------------
(* Removal *)

\* one posting list in remove_fastupdate: pop when id is last, else swap_remove / clear
FastRemoveFrom(doc_ids, id) ==
    IF doc_ids # <<>> /\ doc_ids[Len(doc_ids)] = id THEN DropLast(doc_ids)
    ELSE LET pos == Position(doc_ids, id) IN
         IF pos # 0
         THEN (IF Len(doc_ids) > 1 THEN SwapRemove(doc_ids, pos) ELSE <<>>)
         ELSE doc_ids

\* remove_fastupdate: walk the refs recorded for id
RECURSIVE remove_fastupdate(_, _, _)
remove_fastupdate(ix, refs, id) ==
    IF refs = <<>> THEN ix
    ELSE LET r == Head(refs)
             next ==
                 IF r[1] = "map"
                 THEN (IF r[2] \in DOMAIN ix.map
                       THEN [ix EXCEPT !.map[r[2]] = FastRemoveFrom(@, id)]
                       ELSE ix)
                 ELSE LET key == CtxKey(r[2], r[3]) IN
                      IF key \in DOMAIN ix.ctx
                      THEN [ix EXCEPT !.ctx[key] = FastRemoveFrom(@, id)]
                      ELSE ix
         IN remove_fastupdate(next, Tail(refs), id)

\* one KeystoreMap in remove_from_index: the first occurrence of id leaves each
\* list by swap_remove; a list holding only id is removed with its key
ScanRemove(m, id) ==
    LET gone == {k \in DOMAIN m : Position(m[k], id) # 0 /\ Len(m[k]) <= 1}
    IN [k \in (DOMAIN m) \ gone |->
          IF Position(m[k], id) # 0 THEN SwapRemove(m[k], Position(m[k], id)) ELSE m[k]]

remove_from_index(ix, id) ==
    [map |-> ScanRemove(ix.map, id), ctx |-> ScanRemove(ix.ctx, id), reg |-> ix.reg]

\* KeystoreMap::delete on the Map-form Register: push_index inserts the
\* Register entries behind KeystoreMap::set, so size is still 0 when delete
\* removes one and runs "self.size -= 1".  A build with overflow checks (the
\* debug profile) panics there; a build without them wraps size and goes on.
reg_delete_panics(c, ix, id) ==
    c.overflow_checks /\ c.fastupdate /\ id \in DOMAIN ix.reg

\* Index::remove(id, skip_deletion) ends in that panic
remove_panics(c, ix, id, skip_deletion) ==
    ~skip_deletion /\ reg_delete_panics(c, ix, id)

\* remove_document without its "reg.delete(&id)"
remove_document_kept(c, ix, id, skip_deletion) ==
    IF c.fastupdate
    THEN (IF id \in DOMAIN ix.reg THEN remove_fastupdate(ix, ix.reg[id], id) ELSE ix)
    ELSE remove_from_index(ix, id)

\* remove_document; when it panics, the index as the unwinding leaves it
remove_document(c, ix, id, skip_deletion) ==
    LET ix1 == IF c.fastupdate
               THEN (IF id \in DOMAIN ix.reg
                     THEN remove_fastupdate(ix, ix.reg[id], id) ELSE ix)
               ELSE remove_from_index(ix, id)
    IN IF ~skip_deletion THEN [ix1 EXCEPT !.reg = MapDel(@, {id})] ELSE ix1

-----------------------------------------------------------------------------
(* Insertion *)

\* add_document: the loop over the encoded terms, with fresh dupes maps
AddPushes(c, ix, id, content, append) ==
    AddLoop(c, [ix |-> ix, dupes |-> {}, dupes_ctx |-> {}],
            encode(content), 0, id, append).ix

\* add_document: "if !index.fastupdate { reg.add(id) }" after the loop
AddRegister(c, ix, id) ==
    IF ~c.fastupdate THEN [ix EXCEPT !.reg = MapSet(@, id, <<>>)] ELSE ix

\* add_document from the encode call on (the part after the update routing)
AddEncoded(c, ix, id, content, append) ==
    IF Len(encode(content)) = 0 THEN ix
    ELSE AddRegister(c, AddPushes(c, ix, id, content, append), id)

\* Index::update = remove(id, false) then add(id, content, false); the add finds
\* the id absent from the Register and goes on to the encode call.  When the
\* remove panics the add is not reached.
update(c, ix, id, content) ==
    LET ix1 == remove_document(c, ix, id, FALSE) IN
    IF remove_panics(c, ix, id, FALSE) \/ content = <<>> \/ id = 0 THEN ix1
    ELSE AddEncoded(c, ix1, id, content, FALSE)

\* add_document (Index::add passes skip_update = false)
add_document(c, ix, id, content, append) ==
    IF content = <<>> \/ id = 0 THEN ix
    ELSE IF ~append /\ contains(ix, id) THEN update(c, ix, id, content)
    ELSE AddEncoded(c, ix, id, content, append)

\* Index::add(id, content, append) ends in a panic
add_panics(c, ix, id, content, append) ==
    /\ content # <<>> /\ id # 0
    /\ ~append /\ contains(ix, id)
    /\ remove_panics(c, ix, id, FALSE)

-----------------------------------------------------------------------------
(* Set algebra used by the search (intersect/mod.rs) *)

\* the value standing for a panic of the call (slice index out of range)
Panicked == <<-1>>

\* slice[start..end] with 0-based start, exclusive end
Slice(v, start, end) == SubSeq(v, start + 1, end)

\* v[idx] = id after v.resize(idx + 1, 0) when idx is past the end (0-based idx)
SetAt(v, idx, id) ==
    [k \in 1..(IF idx + 1 > Len(v) THEN idx + 1 ELSE Len(v)) |->
        IF k = idx + 1 THEN id ELSE IF k <= Len(v) THEN v[k] ELSE 0]

\* union: arrays and ids are walked from the last to the first
RECURSIVE UnionWalk(_, _, _, _, _, _)
UnionWalk(ids, check, result, count, offset_remaining, limit) ==
    \* ids: the ids still to visit, in visiting order
    IF ids = <<>> THEN result
    ELSE LET id == Head(ids) IN
         IF id \in check
         THEN UnionWalk(Tail(ids), check, result, count, offset_remaining, limit)
         ELSE IF offset_remaining > 0
         THEN UnionWalk(Tail(ids), check \cup {id}, result, count,
                        offset_remaining - 1, limit)
         ELSE IF limit > 0 /\ count + 1 >= limit THEN Append(result, id)
         ELSE UnionWalk(Tail(ids), check \cup {id}, Append(result, id), count + 1,
                        offset_remaining, limit)

Reverse(v) == [k \in 1..Len(v) |-> v[Len(v) - k + 1]]

union(arrays, limit, offset) ==
    UnionWalk(Reverse(Flatten(arrays)), {}, <<>>, 0, offset, limit)

\* the final slice of intersect when limit or offset is given
FinalSlice(final_result, limit, offset) ==
    IF limit > 0 \/ offset > 0
    THEN (IF offset > Len(final_result) THEN Panicked
          ELSE Slice(final_result, offset,
                     IF limit > 0 THEN Min(offset + limit, Len(final_result))
                     ELSE Len(final_result)))
    ELSE final_result

\* the double loop of intersect: y in 0..resolution, x in 0..length;
\* st is [check, result, ret] where ret is <<>> or <<the early return value>>
RECURSIVE IntersectLoop(_, _, _, _, _, _, _, _, _, _)
IntersectLoop(arrays, resolution, limit, offset, suggest, boost, resolve, y, x, st) ==
    LET length == Len(arrays) IN
    IF y >= resolution THEN st
    ELSE IF x >= length
    THEN IntersectLoop(arrays, resolution, limit, offset, suggest, boost, resolve,
                       y + 1, 0, st)
    ELSE IF y >= Len(arrays[x + 1])
    THEN IntersectLoop(arrays, resolution, limit, offset, suggest, boost, resolve,
                       y, x + 1, st)
    ELSE LET id == arrays[x + 1][y + 1]
             slot_idx == (IF id \in DOMAIN st.check THEN st.check[id] ELSE 0) + 1
             check2 == MapSet(st.check, id, slot_idx)
             result1 == IF slot_idx > Len(st.result) THEN Append(st.result, <<>>)
                        ELSE st.result
             score_idx == y + (IF x > 0 \/ ~suggest THEN 0 ELSE boost)
             result2 == IF resolve
                        THEN [result1 EXCEPT ![slot_idx] = Append(@, id)]
                        ELSE [result1 EXCEPT ![slot_idx] = SetAt(@, score_idx, id)]
             slot == result2[slot_idx]
         IN IF resolve /\ limit > 0 /\ slot_idx = length - 1
               /\ Len(slot) >= offset + limit
            THEN [check |-> check2, result |-> result2,
                  ret |-> <<Slice(slot, offset, Min(offset + limit, Len(slot)))>>]
            ELSE IntersectLoop(arrays, resolution, limit, offset, suggest, boost,
                               resolve, y, x + 1,
                               [check |-> check2, result |-> result2, ret |-> <<>>])

intersect(arrays, resolution, limit, offset, suggest, boost, resolve) ==
    LET length == Len(arrays) IN
    IF length = 0 THEN <<>>
    ELSE IF length = 1
    THEN (IF offset > Len(arrays[1]) THEN Panicked
          ELSE Slice(arrays[1], offset, Len(arrays[1])))
    ELSE LET st == IntersectLoop(arrays, resolution, limit, offset, suggest, boost,
                                 resolve, 0, 0,
                                 [check |-> [i \in {} |-> 0], result |-> <<>>, ret |-> <<>>])
             result_len == Len(st.result)
         IN IF st.ret # <<>> THEN st.ret[1]
            ELSE IF result_len = 0 THEN <<>>
            ELSE IF ~suggest
            THEN (IF result_len < length THEN <<>>
                  ELSE IF resolve THEN FinalSlice(st.result[length], limit, offset)
                  ELSE st.result[length])
            ELSE (IF result_len > 1 THEN union(st.result, limit, offset)
                  ELSE FinalSlice(st.result[1], limit, offset))

-----------------------------------------------------------------------------
(* Search (search/mod.rs).  An Option is <<>> for None and <<v>> for Some(v); *)
(* search options are [query, limit, offset, context, suggest, resolve,      *)
(* resolution, boost], each an Option except query.                          *)

OptOr(opt, default) == IF opt = <<>> THEN default ELSE opt[1]

\* resolve_default: offset then limit over the sub-arrays
RECURSIVE ResolveFrom(_, _, _, _)
ResolveFrom(arr, results, remaining_limit, remaining_offset) ==
    IF arr = <<>> THEN results
    ELSE LET ids == Head(arr) IN
         IF ids = <<>> THEN ResolveFrom(Tail(arr), results, remaining_limit, remaining_offset)
         ELSE IF remaining_offset > 0 /\ Len(ids) <= remaining_offset
         THEN ResolveFrom(Tail(arr), results, remaining_limit, remaining_offset - Len(ids))
         ELSE LET start == remaining_offset
                  end == Min(start + remaining_limit, Len(ids))
                  results2 == results \o Slice(ids, start, end)
                  limit2 == remaining_limit - (end - start)
              IN IF limit2 = 0 THEN results2
                 ELSE ResolveFrom(Tail(arr), results2, limit2, 0)

resolve_default(arr, limit, offset) == ResolveFrom(arr, <<>>, limit, offset)

\* get_array: the posting list of term (under keyword when keyword is not ""),
\* as the one sub-array the index stores for it; <<>> is None
get_array(c, ix, term0, keyword0) ==
    LET swap == keyword0 # <<>> /\ c.bidirectional /\ StrGt(term0, keyword0)
        term == IF swap THEN keyword0 ELSE term0
        keyword == IF swap THEN term0 ELSE keyword0
    IN IF keyword # <<>>
       THEN (IF CtxKey(keyword, term) \in DOMAIN ix.ctx
             THEN << <<ix.ctx[CtxKey(keyword, term)]>> >> ELSE <<>>)
       ELSE (IF term \in DOMAIN ix.map THEN << <<ix.map[term]>> >> ELSE <<>>)

single_term_query(c, ix, term, keyword, limit, offset, resolve) ==
    LET arr == get_array(c, ix, term, keyword) IN
    IF arr # <<>> /\ arr[1] # <<>> THEN resolve_default(arr[1], limit, offset)
    ELSE <<>>

\* add_result: Some(vec![]) asks the caller to stop with no result, None to go
\* on; the clone of result that receives arr is dropped when the call returns
add_result(arr, result, suggest, resolution) ==
    IF arr = <<>> THEN (IF ~suggest THEN << <<>> >> ELSE <<>>)
    ELSE IF Len(arr) <= resolution THEN <<>>
    ELSE LET word_arr == SubSeq(arr, 1, Min(resolution, Len(arr))) IN
         IF word_arr = <<>> THEN (IF ~suggest THEN << <<>> >> ELSE <<>>)
         ELSE <<>>

\* the term loop of search; st is [result, keyword, dupes]
RECURSIVE SearchLoop(_, _, _, _, _, _, _)
SearchLoop(c, ix, query_terms, idx, st, suggest, resolution) ==
    IF idx >= Len(query_terms) THEN st
    ELSE LET term == query_terms[idx + 1] IN
         IF term = <<>> \/ term \in st.dupes
         THEN SearchLoop(c, ix, query_terms, idx + 1, st, suggest, resolution)
         ELSE LET arr == get_array(c, ix, term, st.keyword)
                  processed == IF arr # <<>>
                               THEN add_result(arr[1], st.result, suggest, resolution)
                               ELSE <<>>
              IN IF processed # <<>>
                 THEN [st EXCEPT !.result = processed[1], !.dupes = @ \cup {term}]
                 ELSE SearchLoop(c, ix, query_terms, idx + 1,
                                 [result |-> st.result,
                                  keyword |-> IF st.keyword # <<>>
                                                 /\ (~suggest \/ st.result = <<>>)
                                              THEN term ELSE st.keyword,
                                  dupes |-> st.dupes \cup {term}],
                                 suggest, resolution)

return_result(result, resolution, limit, offset, suggest, resolve) ==
    IF Len(result) = 0 THEN <<>>
    ELSE IF Len(result) = 1 THEN resolve_default(result[1], limit, offset)
    ELSE intersect(Flatten(result), resolution, limit, offset, suggest, 0, resolve)

\* search.  The suggest fallback block of the code fills a result local to
\* the block, which the block drops: it does not change what is returned.
search(c, ix, o) ==
    LET limit == OptOr(o.limit, 100)
        offset == OptOr(o.offset, 0)
        context == OptOr(o.context, c.depth > 0)
        suggest == OptOr(o.suggest, FALSE)
        resolve == OptOr(o.resolve, TRUE)
        resolution == OptOr(o.resolution,
                            IF context THEN c.resolution_ctx ELSE c.resolution)
        query_terms == encode(o.query)
        length == Len(query_terms)
    IN IF length = 0 THEN <<>>
       ELSE IF length = 1
       THEN single_term_query(c, ix, query_terms[1], <<>>, limit, offset, resolve)
       ELSE IF length = 2 /\ context /\ ~suggest
       THEN single_term_query(c, ix, query_terms[2], query_terms[1], limit, offset, resolve)
       ELSE LET st == SearchLoop(c, ix, query_terms, IF context THEN 1 ELSE 0,
                                 [result |-> <<>>,
                                  keyword |-> IF context THEN query_terms[1] ELSE <<>>,
                                  dupes |-> {}],
                                 suggest, resolution)
            IN return_result(st.result, resolution, limit, offset, suggest, resolve)

-----------------------------------------------------------------------------
(* The Index as a state machine *)

\* Index::new: resolution defaults to 9 and resolution_ctx to resolution
DefaultResolution == 9

\* the fields Index::new sets from its options, and the build's overflow checks
Config(fastupdate, tokenize, depth, bidirectional, rtl) ==
    [fastupdate |-> fastupdate, tokenize |-> tokenize, depth |-> depth,
     bidirectional |-> bidirectional, rtl |-> rtl,
     resolution |-> DefaultResolution, resolution_ctx |-> DefaultResolution,
     overflow_checks |-> FALSE]

\* the same index in a build with overflow checks
DebugBuild(c) == [c EXCEPT !.overflow_checks = TRUE]

\* the configurations explored: the default one, each tokenize mode Index::new
\* accepts, both Register forms, and context depth 2 with and without
\* bidirectional (rtl is not combined with depth > 0)
Configs ==
    { Config(FALSE, "strict", 0, FALSE, FALSE),
      Config(TRUE, "strict", 0, FALSE, FALSE),
      Config(FALSE, "forward", 0, FALSE, FALSE),
      Config(TRUE, "forward", 0, FALSE, TRUE),
      Config(FALSE, "reverse", 0, FALSE, FALSE),
      Config(TRUE, "reverse", 0, FALSE, FALSE),
      Config(FALSE, "full", 0, FALSE, FALSE),
      Config(FALSE, "strict", 2, FALSE, FALSE),
      Config(FALSE, "strict", 2, TRUE, FALSE),
      Config(TRUE, "strict", 2, TRUE, FALSE),
      DebugBuild(Config(TRUE, "strict", 0, FALSE, FALSE)) }

\* "a b", "abc", "A", " ", ""
Texts ==
    { <<97, 32, 98>>, <<97, 98, 99>>, <<65>>, <<32>>, <<>> }

Ix == [map |-> map, ctx |-> ctx, reg |-> reg]

SetIx(ix) == /\ map' = ix.map
             /\ ctx' = ix.ctx
             /\ reg' = ix.reg

Op(op, id, text) == [op |-> op, id |-> id, text |-> text]

\* Index::new(options)
NewIndex(configs) ==
    /\ cfg \in configs
    /\ map = EmptyMap
    /\ ctx = EmptyMap
    /\ reg = EmptyMap
    /\ last = Op("new", 0, <<>>)

\* Index::add(id, content, append); id 0 is the reserved "absent" id
\* a panic unwinds the thread that uses the Index: nothing runs after it
Alive == last.op # "panic"

Add(ids, texts) ==
    \E id \in ids, text \in texts, append \in BOOLEAN :
        /\ Alive
        /\ SetIx(add_document(cfg, Ix, id, text, append))
        /\ last' = Op(IF add_panics(cfg, Ix, id, text, append) THEN "panic"
                      ELSE IF append THEN "append" ELSE "add", id, text)
        /\ UNCHANGED <<cfg, enc, doc, notIndex>>

\* Index::update(id, content)
Update(ids, texts) ==
    \E id \in ids, text \in texts :
        /\ Alive
        /\ SetIx(update(cfg, Ix, id, text))
        /\ last' = Op(IF remove_panics(cfg, Ix, id, FALSE) THEN "panic" ELSE "update",
                      id, text)
        /\ UNCHANGED <<cfg, enc, doc, notIndex>>

\* Index::remove(id, false), as every caller in the repository calls it; had
\* records whether the id was registered before the call
Remove(ids) ==
    \E id \in ids :
        /\ Alive
        /\ SetIx(remove_document(cfg, Ix, id, FALSE))
        /\ last' = [op |-> IF remove_panics(cfg, Ix, id, FALSE) THEN "panic" ELSE "remove",
                    id |-> id, text |-> <<>>, had |-> contains(Ix, id)]
        /\ UNCHANGED <<cfg, enc, doc, notIndex>>

\* Index::clear; had records whether the index held anything before the call
Clear ==
    /\ Alive
    /\ SetIx(clear(Ix))
    /\ last' = [op |-> "clear", id |-> 0, text |-> <<>>, had |-> Ix # EmptyIndex]
    /\ UNCHANGED <<cfg, enc, doc, notIndex>>

\* no search cache is in use
NoSearchCache ==
    /\ sc = <<>>
    /\ computed = <<>>
    /\ now = 0
    /\ enc = <<>>
    /\ doc = <<>>
    /\ aix = <<>>
    /\ tgt = <<>>
    /\ bc = <<>>

IndexNext ==
    \/ Add(DocIds \cup {0}, Texts)
    \/ Update(DocIds, Texts)
    \/ Remove(DocIds)
    \/ Clear

IndexInit ==
    /\ NewIndex(Configs)
    /\ NoSearchCache

SpecIndex == IndexInit /\ [][IndexNext]_vars

-----------------------------------------------------------------------------
(* Properties of the Index *)

\* id is held by at least one posting list of the term index or the context index
InSomePostingList(ix, id) ==
    \/ \E k \in DOMAIN ix.map : Contains(ix.map[k], id)
    \/ \E k \in DOMAIN ix.ctx : Contains(ix.ctx[k], id)

\* C1: after any sequence of add, update, remove and clear, in both Register
\* forms, contains(id) is true if and only if id is in at least one posting
\* list of the term index or the context index
C1_RegisterIffPosted ==
    \A id \in DocIds \cup {0} : contains(Ix, id) <=> InSomePostingList(Ix, id)

\* C1, the case at hand: an add has just run and its id is in the Register
C1_AddedAndRegistered ==
    /\ last.op = "add"
    /\ contains(Ix, last.id)

\* the terms encode(t) produces
EncodedTerms(t) == SeqToSet(encode(t))

\* C2: after update(id, t), no posting list contains id under a term that
\* encode(t) does not produce, and the posting list of every term that
\* encode(t) produces contains id exactly once
C2_UpdateReplacesPostings ==
    last.op = "update" =>
        /\ \A k \in DOMAIN map :
              Contains(map[k], last.id) => k \in EncodedTerms(last.text)
        /\ \A k \in DOMAIN ctx :
              Contains(ctx[k], last.id) => k[2] \in EncodedTerms(last.text)
        /\ \A t \in EncodedTerms(last.text) :
              Count(Lookup(map, t), last.id) = 1

\* C2, the case at hand: an update with a text of two terms has just run
C2_UpdatedTwoTerms ==
    /\ last.op = "update"
    /\ Cardinality(EncodedTerms(last.text)) = 2

-----------------------------------------------------------------------------
(* Searching the Index *)

\* SearchOptions with every Option field None but the query
DefaultOptions(query) ==
    [query |-> query, limit |-> <<>>, offset |-> <<>>, context |-> <<>>,
     suggest |-> <<>>, resolve |-> <<>>, resolution |-> <<>>, boost |-> <<>>]

\* "a b", "b a", "abc", "a"
Queries == { <<97, 32, 98>>, <<98, 32, 97>>, <<97, 98, 99>>, <<97>> }

\* the option settings explored: the defaults, the context flag on and off,
\* suggest on, limit 1, offset 1
OptionsFor(query) ==
    { DefaultOptions(query),
      [DefaultOptions(query) EXCEPT !.context = <<TRUE>>],
      [DefaultOptions(query) EXCEPT !.context = <<FALSE>>],
      [DefaultOptions(query) EXCEPT !.suggest = <<TRUE>>],
      [DefaultOptions(query) EXCEPT !.limit = <<1>>],
      [DefaultOptions(query) EXCEPT !.offset = <<1>>] }

SearchConfigs ==
    { Config(FALSE, "strict", 0, FALSE, FALSE),
      Config(TRUE, "strict", 0, FALSE, FALSE),
      Config(FALSE, "strict", 2, FALSE, FALSE),
      Config(FALSE, "strict", 2, TRUE, FALSE) }

Searched(o, res) == [op |-> "search", id |-> 0, text |-> o.query, o |-> o, res |-> res]

SearchInit ==
    /\ NewIndex(SearchConfigs)
    /\ NoSearchCache

\* Index::search(options)
Search ==
    \E q \in Queries : \E o \in OptionsFor(q) :
        /\ Alive
        /\ last' = Searched(o, search(cfg, Ix, o))
        /\ UNCHANGED <<cfg, enc, doc, map, ctx, reg, notIndex>>

SearchNext ==
    \/ Add(DocIds \cup {0}, Texts)
    \/ Update(DocIds, Texts)
    \/ Remove(DocIds)
    \/ Clear
    \/ Search

SpecSearch == SearchInit /\ [][SearchNext]_vars

\* the ids held by the posting list of every term of the set terms
InEveryPostingList(terms) ==
    {id \in DocIds : \A t \in terms : Contains(Lookup(map, t), id)}

\* C3: for a query that encodes to two or more distinct terms, with suggest
\* off, search returns a DocId if and only if it is in the posting list of
\* every query term
C3_MultiTermIsIntersection ==
    (/\ last.op = "search"
     /\ Cardinality(EncodedTerms(last.text)) >= 2
     /\ ~OptOr(last.o.suggest, FALSE)
     /\ last.o.limit = <<>>
     /\ last.o.offset = <<>>)
    => SeqToSet(last.res) = InEveryPostingList(EncodedTerms(last.text))

\* C3, the case at hand: a two-term query has been searched with the default
\* options and some document is in the posting list of both terms
C3_TwoTermsBothPosted ==
    /\ last.op = "search"
    /\ last.o = DefaultOptions(last.text)
    /\ Cardinality(EncodedTerms(last.text)) = 2
    /\ InEveryPostingList(EncodedTerms(last.text)) # {}

-----------------------------------------------------------------------------
(* The search-result cache (search/cache.rs).  The store is an LruCache,    *)
(* held as the sequence of its entries from the most recently used to the   *)
(* least recently used; an entry is [key, data, created_at, access_count].  *)
(* poisoned tells that a thread panicked while holding the store's Mutex.   *)

\* str::to_lowercase
to_lowercase(s) == [i \in DOMAIN s |-> ToLower(s[i])]

\* CacheKeyGenerator::generate_search_key: the parts joined by "|"
generate_search_key(query, o) ==
    <<to_lowercase(query), OptOr(o.limit, 100), OptOr(o.offset, 0),
      o.context # <<>>, OptOr(o.resolve, TRUE), OptOr(o.suggest, FALSE),
      o.resolution, o.boost>>

\* SearchCache::new
SearchCache_new(max_size, default_ttl) ==
    [store |-> <<>>, default_ttl |-> default_ttl, max_size |-> max_size,
     hit_count |-> 0, miss_count |-> 0, poisoned |-> FALSE]

\* the capacity the LruCache is created with
LruCap(c) == IF c.max_size = 0 THEN 1000 ELSE c.max_size

\* position of key in the store, 0 if absent
LruFind(store, key) ==
    IF \E i \in DOMAIN store : store[i].key = key
    THEN CHOOSE i \in DOMAIN store : store[i].key = key
    ELSE 0

LruWithout(store, i) == SubSeq(store, 1, i - 1) \o SubSeq(store, i + 1, Len(store))

\* LruCache::put: the entry becomes the most recently used; a new key put
\* into a full cache evicts the least recently used entry
LruPut(store, cap, entry) ==
    LET i == LruFind(store, entry.key) IN
    IF i # 0 THEN <<entry>> \o LruWithout(store, i)
    ELSE IF Len(store) >= cap THEN <<entry>> \o DropLast(store)
    ELSE <<entry>> \o store

\* LruCache::pop
LruPop(store, key) ==
    IF LruFind(store, key) # 0 THEN LruWithout(store, LruFind(store, key)) ELSE store

\* a get that hands out the entry whatever its age
SearchCache_get_stale(c, key, t) ==
    LET i == LruFind(c.store, key) IN
    IF i # 0
    THEN [c |-> [c EXCEPT !.store = <<[c.store[i] EXCEPT !.access_count = @ + 1]>>
                                        \o LruWithout(c.store, i),
                          !.hit_count = @ + 1],
          ret |-> <<c.store[i].data>>]
    ELSE [c |-> [c EXCEPT !.miss_count = @ + 1], ret |-> <<>>]

\* SearchCache::get; ret is <<>> for None and <<data>> for Some(data)
SearchCache_get(c, key, t) ==
    IF c.poisoned THEN [c |-> c, ret |-> <<>>]
    ELSE LET i == LruFind(c.store, key) IN
         IF i # 0
         THEN LET entry == c.store[i] IN
              IF c.default_ttl # <<>> /\ t - entry.created_at > c.default_ttl[1]
              THEN [c |-> [c EXCEPT !.store = LruPop(c.store, key),
                                    !.miss_count = @ + 1],
                    ret |-> <<>>]
              ELSE [c |-> [c EXCEPT !.store = <<[entry EXCEPT !.access_count = @ + 1]>>
                                              \o LruWithout(c.store, i),
                                    !.hit_count = @ + 1],
                    ret |-> <<entry.data>>]
         ELSE [c |-> [c EXCEPT !.miss_count = @ + 1], ret |-> <<>>]

\* SearchCache::set
SearchCache_set(c, key, data, t) ==
    IF c.poisoned THEN c
    ELSE [c EXCEPT !.store = LruPut(c.store, LruCap(c),
                                    [key |-> key, data |-> data,
                                     created_at |-> t, access_count |-> 1])]

\* SearchCache::remove
SearchCache_remove(c, key) ==
    IF c.poisoned THEN [c |-> c, ret |-> FALSE]
    ELSE [c |-> [c EXCEPT !.store = LruPop(c.store, key)],
          ret |-> LruFind(c.store, key) # 0]

\* SearchCache::clear
SearchCache_clear(c) ==
    [c EXCEPT !.store = IF c.poisoned THEN @ ELSE <<>>,
              !.hit_count = 0, !.miss_count = 0]

\* SearchCache::stats (hit_rate, a quotient of the two counters, is left out)
SearchCache_stats(c) ==
    [size |-> IF c.poisoned THEN 0 ELSE Len(c.store),
     max_size |-> c.max_size,
     hit_count |-> c.hit_count, miss_count |-> c.miss_count,
     total_requests |-> c.hit_count + c.miss_count]

\* CachedSearch::search with search_fn = Index::search on the same options
CachedSearch_search(c, icfg, ix, o, t) ==
    LET cache_key == generate_search_key(o.query, o)
        got == SearchCache_get(c, cache_key, t)
    IN IF got.ret # <<>>
       THEN [c |-> got.c, ret |-> got.ret[1], hit |-> TRUE]
       ELSE LET results == search(icfg, ix, o) IN
            [c |-> SearchCache_set(got.c, cache_key, results, t),
             ret |-> results, hit |-> FALSE]

-----------------------------------------------------------------------------
(* A CachedSearch over the Index as a state machine *)

\* bounds: the clock stops at MaxTime, the cache serves MaxRequests lookups
MaxTime == 2

MaxRequests == 2

\* "a b"
CacheTexts == { <<97, 32, 98>> }

\* "a b", "a"
CacheQueries == { <<97, 32, 98>>, <<97>> }

CacheOptionsFor(query) ==
    { DefaultOptions(query),
      [DefaultOptions(query) EXCEPT !.context = <<TRUE>>],
      [DefaultOptions(query) EXCEPT !.context = <<FALSE>>] }

CacheConfigs ==
    { Config(FALSE, "strict", 0, FALSE, FALSE),
      Config(FALSE, "strict", 2, FALSE, FALSE) }

CachedSearched(o, out) ==
    [op |-> "cached_search", id |-> 0, text |-> o.query, o |-> o,
     res |-> out.ret, hit |-> out.hit]

\* Index::new and CachedSearch::new(search_fn, cache_size, ttl)
CachedInit ==
    /\ NewIndex(CacheConfigs)
    /\ \E cache_size \in {1, 2}, ttl \in {<<>>, <<1>>} :
          sc = SearchCache_new(cache_size, ttl)
    /\ computed = <<>>
    /\ now = 0
    /\ enc = <<>>
    /\ doc = <<>>
    /\ aix = <<>>
    /\ tgt = <<>>
    /\ bc = <<>>

\* CachedSearch::search(query, options)
CachedSearchOp ==
    \E q \in CacheQueries : \E o \in CacheOptionsFor(q) :
        LET out == CachedSearch_search(sc, cfg, Ix, o, now) IN
        /\ Alive
        /\ sc.hit_count + sc.miss_count < MaxRequests
        /\ sc' = out.c
        /\ computed' = IF out.hit THEN computed
                       ELSE MapSet(computed, generate_search_key(q, o), Ix)
        /\ last' = CachedSearched(o, out)
        /\ UNCHANGED <<cfg, enc, doc, tgt, bc, map, ctx, reg, now, aix>>

\* time passes
Tick ==
    /\ now < MaxTime
    /\ now' = now + 1
    /\ UNCHANGED <<cfg, enc, doc, tgt, bc, map, ctx, reg, last, sc, computed, aix>>

CachedNext ==
    \/ Add({1}, CacheTexts)
    \/ Update({1}, CacheTexts)
    \/ Remove({1})
    \/ Clear
    \/ CachedSearchOp
    \/ Tick

SpecCached == CachedInit /\ [][CachedNext]_vars

\* C4: after any mutation of the index, a cached search never returns a
\* result that was computed before that mutation: a result served from the
\* cache was computed on the current index contents
C4_HitComputedOnCurrentIndex ==
    (last.op = "cached_search" /\ last.hit)
        => computed[generate_search_key(last.text, last.o)] = Ix

\* C4, the case at hand: the cache serves a result
C4_CacheHit ==
    /\ last.op = "cached_search"
    /\ last.hit

\* C5: while the index is not mutated, a cached search that hits returns the
\* DocId sequence the uncached search returns for the same query and options
C5_HitEqualsUncached ==
    (/\ last.op = "cached_search"
     /\ last.hit
     /\ computed[generate_search_key(last.text, last.o)] = Ix)
    => last.res = search(cfg, Ix, last.o)

\* C5, the case at hand: a hit on an entry computed on the current contents,
\* for options that set the context flag
C5_HitOnCurrentContents ==
    /\ last.op = "cached_search"
    /\ last.hit
    /\ computed[generate_search_key(last.text, last.o)] = Ix
    /\ last.o.context # <<>>

-----------------------------------------------------------------------------
(* The AsyncIndex (async_.rs): the Index behind a tokio RwLock, one writing  *)
(* task and one searching task, each run by spawn_blocking.  aix is          *)
(*   [writer, readers]  the lock: a write guard is held / read guards held   *)
(*   [wpc, w]           the writing task's position and its operation        *)
(*   [rpc, ro]          the searching task's position and its options        *)
(*   [pre, post]        history: the index before the last write operation   *)
(*                      took the lock, and the index with all the changes    *)
(*                      of that operation made                               *)
(*   [overlap]          history: the search was in flight with a write       *)
(*   [obs]              what the search saw: <<>> or <<[snap, pre, post, res]>> *)
(* The writing task changes the index in the steps in which add_document     *)
(* and remove_document change it: the removal, the pushes, the Register.     *)

\* "a b", "A"
AsyncTexts == { <<97, 32, 98>>, <<65>> }

AsyncConfigs ==
    { Config(FALSE, "strict", 0, FALSE, FALSE),
      Config(TRUE, "strict", 0, FALSE, FALSE),
      DebugBuild(Config(TRUE, "strict", 0, FALSE, FALSE)),
      Config(FALSE, "strict", 2, FALSE, FALSE) }

\* RwLock::blocking_write returns once no guard is held
blocking_write(l) == ~l.writer /\ l.readers = 0

\* RwLock::blocking_read returns once no write guard is held
blocking_read(l) == ~l.writer

WriteOp(k, i, text, app) ==
    [kind |-> k, id |-> i, content |-> text, append |-> app]

\* the operation of the writing task: index.add / index.update / index.remove
ApplyOp(c, ix, w) ==
    CASE w.kind = "add" -> add_document(c, ix, w.id, w.content, w.append)
      [] w.kind = "update" -> update(c, ix, w.id, w.content)
      [] OTHER -> remove_document(c, ix, w.id, FALSE)

\* where add_document goes once the id is not (or no longer) to be replaced
AfterRouting(w) ==
    IF w.content = <<>> \/ w.id = 0 \/ Len(encode(w.content)) = 0
    THEN "unlock" ELSE "push"

\* the first step of the operation under the write guard
FirstStep(ix, w) ==
    IF w.kind = "add"
    THEN (IF w.content = <<>> \/ w.id = 0 THEN "unlock"
          ELSE IF ~w.append /\ contains(ix, w.id) THEN "remove"
          ELSE AfterRouting(w))
    ELSE "remove"

\* the posting lists of an index
Postings(ix) == [map |-> ix.map, ctx |-> ix.ctx]

AsyncInit ==
    /\ NewIndex(AsyncConfigs)
    /\ sc = <<>>
    /\ computed = <<>>
    /\ now = 0
    /\ enc = <<>>
    /\ doc = <<>>
    /\ aix = [writer |-> FALSE, readers |-> 0,
              wpc |-> "idle", w |-> WriteOp("add", 0, <<>>, FALSE),
              rpc |-> "idle", ro |-> DefaultOptions(<<>>),
              pre |-> EmptyIndex, post |-> EmptyIndex,
              overlap |-> FALSE, obs |-> <<>>]
    /\ tgt = <<>>
    /\ bc = <<>>

\* the writing task is spawned with the operation w
Spawned(w) ==
    [aix EXCEPT !.wpc = "waiting", !.w = w,
                !.overlap = @ \/ aix.rpc \in {"waiting", "locked"}]

\* AsyncIndex::add_async up to spawn_blocking
add_async ==
    \E text \in AsyncTexts, app \in BOOLEAN :
        /\ aix.wpc = "idle"
        /\ aix' = Spawned(WriteOp("add", 1, text, app))
        /\ UNCHANGED <<cfg, enc, doc, tgt, bc, map, ctx, reg, last, sc, computed, now>>

\* AsyncIndex::update_async up to spawn_blocking
update_async ==
    \E text \in AsyncTexts :
        /\ aix.wpc = "idle"
        /\ aix' = Spawned(WriteOp("update", 1, text, FALSE))
        /\ UNCHANGED <<cfg, enc, doc, tgt, bc, map, ctx, reg, last, sc, computed, now>>

\* AsyncIndex::remove_async up to spawn_blocking
remove_async ==
    /\ aix.wpc = "idle"
    /\ aix' = Spawned(WriteOp("remove", 1, <<>>, FALSE))
    /\ UNCHANGED <<cfg, enc, doc, tgt, bc, map, ctx, reg, last, sc, computed, now>>

\* let mut index = index.blocking_write()
WriterLock ==
    /\ aix.wpc = "waiting"
    /\ blocking_write(aix)
    /\ aix' = [aix EXCEPT !.writer = TRUE, !.wpc = FirstStep(Ix, aix.w),
                          !.pre = Ix,
                          !.post = ApplyOp([cfg EXCEPT !.overflow_checks = FALSE],
                                           Ix, aix.w)]
    /\ UNCHANGED <<cfg, enc, doc, tgt, bc, map, ctx, reg, last, sc, computed, now>>

\* remove_document, for remove and for the replacement of a present id; a
\* panic in it ends the task, and the unwinding drops the write guard
WriterRemove ==
    /\ aix.wpc = "remove"
    /\ SetIx(remove_document(cfg, Ix, aix.w.id, FALSE))
    /\ aix' = [aix EXCEPT !.wpc = IF aix.w.kind = "remove"
                                     \/ remove_panics(cfg, Ix, aix.w.id, FALSE)
                                  THEN "unlock"
                                  ELSE AfterRouting(aix.w)]
    /\ UNCHANGED <<cfg, enc, doc, tgt, bc, last, sc, computed, now>>

\* the pushes of add_document
WriterPush ==
    /\ aix.wpc = "push"
    /\ SetIx(AddPushes(cfg, Ix, aix.w.id, aix.w.content,
                       aix.w.append /\ aix.w.kind = "add"))
    /\ aix' = [aix EXCEPT !.wpc = "register"]
    /\ UNCHANGED <<cfg, enc, doc, tgt, bc, last, sc, computed, now>>

\* the Register entry of add_document
WriterRegister ==
    /\ aix.wpc = "register"
    /\ SetIx(AddRegister(cfg, Ix, aix.w.id))
    /\ aix' = [aix EXCEPT !.wpc = "unlock"]
    /\ UNCHANGED <<cfg, enc, doc, tgt, bc, last, sc, computed, now>>

\* the write guard is dropped
WriterUnlock ==
    /\ aix.wpc = "unlock"
    /\ aix' = [aix EXCEPT !.writer = FALSE, !.wpc = "idle"]
    /\ UNCHANGED <<cfg, enc, doc, tgt, bc, map, ctx, reg, last, sc, computed, now>>

\* AsyncIndex::search_async up to spawn_blocking
search_async ==
    \E q \in CacheQueries :
        /\ aix.rpc = "idle"
        /\ aix' = [aix EXCEPT !.rpc = "waiting", !.ro = DefaultOptions(q),
                              !.overlap = aix.wpc # "idle", !.obs = <<>>]
        /\ UNCHANGED <<cfg, enc, doc, tgt, bc, map, ctx, reg, last, sc, computed, now>>

\* let index = index.blocking_read()
ReaderLock ==
    /\ aix.rpc = "waiting"
    /\ blocking_read(aix)
    /\ aix' = [aix EXCEPT !.readers = @ + 1, !.rpc = "locked"]
    /\ UNCHANGED <<cfg, enc, doc, tgt, bc, map, ctx, reg, last, sc, computed, now>>

\* index.search(&options), then the read guard is dropped
ReaderSearch ==
    /\ aix.rpc = "locked"
    /\ aix' = [aix EXCEPT !.readers = @ - 1, !.rpc = "idle",
                          !.obs = <<[snap |-> Postings(Ix),
                                     pre |-> aix.pre, post |-> aix.post,
                                     res |-> search(cfg, Ix, aix.ro)]>>]
    /\ UNCHANGED <<cfg, enc, doc, tgt, bc, map, ctx, reg, last, sc, computed, now>>

AsyncNext ==
    \/ add_async
    \/ update_async
    \/ remove_async
    \/ WriterLock
    \/ WriterRemove
    \/ WriterPush
    \/ WriterRegister
    \/ WriterUnlock
    \/ search_async
    \/ ReaderLock
    \/ ReaderSearch

SpecAsync == AsyncInit /\ [][AsyncNext]_vars

\* C6: a search running concurrently with a single add, remove or update sees
\* the posting lists either as they were before that operation or as they
\* are after it, never with only some of the operation's changes
C6_SearchSeesWholeOperation ==
    (aix.obs # <<>> /\ aix.overlap) =>
        \/ aix.obs[1].snap = Postings(aix.obs[1].pre)
        \/ aix.obs[1].snap = Postings(aix.obs[1].post)

\* C6, the case at hand: a search that was in flight together with a write
\* operation that changes the posting lists in more than one step
C6_SearchOverlappedWrite ==
    /\ aix.obs # <<>>
    /\ aix.overlap
    /\ aix.w.kind = "update"
    /\ Postings(aix.obs[1].pre) # Postings(aix.obs[1].post)
    /\ aix.obs[1].snap = Postings(aix.obs[1].post)

-----------------------------------------------------------------------------
(* Export and import (serialize.rs).  HashMap iteration order is not fixed: *)
(* where the result depends on it, the operator takes the choice as an      *)
(* argument and the action draws it.                                        *)

\* u64::to_string
RECURSIVE to_string(_)
to_string(n) == IF n < 10 THEN <<48 + n>> ELSE to_string(n \div 10) \o <<48 + (n % 10)>>

\* str::parse::<u64> of a string of digits
RECURSIVE parse_u64(_)
parse_u64(s) ==
    IF Len(s) = 1 THEN s[1] - 48
    ELSE 10 * parse_u64(DropLast(s)) + (s[Len(s)] - 48)

\* some enumeration of a finite set
RECURSIVE SetToSeq(_)
SetToSeq(S) ==
    IF S = {} THEN <<>> ELSE LET x == CHOOSE x \in S : TRUE IN <<x>> \o SetToSeq(S \ {x})

\* the shards the context index uses
CtxShards(cx) == {k[1] : k \in DOMAIN cx}

\* the orders in which the shards of the context index can be iterated:
\* shard -> position, from 0
ShardOrders(cx) ==
    {f \in [CtxShards(cx) -> 0..(Cardinality(CtxShards(cx)) - 1)] :
        \A g, h \in CtxShards(cx) : f[g] = f[h] => g = h}

\* format!("ctx_{}", result.len())
CtxKeyStr(n) == <<99, 116, 120, 95>> \o to_string(n)

\* export_main_index: term -> ids
export_main_index(ix) == ix.map

\* export_context_index: "ctx_N" -> (term -> ids), the shards taken in order ord
export_context_index(ix, ord) ==
    [nm \in {CtxKeyStr(ord[h]) : h \in CtxShards(ix.ctx)} |->
        LET h == CHOOSE g \in CtxShards(ix.ctx) : CtxKeyStr(ord[g]) = nm IN
        [t \in {k[2] : k \in {j \in DOMAIN ix.ctx : j[1] = h}} |-> ix.ctx[<<h, t>>]]]

\* export_registry
export_registry(c, ix) ==
    IF c.fastupdate THEN [kind |-> "Map", ids |-> DOMAIN ix.reg, refs |-> ix.reg]
    ELSE [kind |-> "Set", ids |-> DOMAIN ix.reg, refs |-> EmptyMap]

\* Index::export
export(c, ix, ord) ==
    [version |-> "0.1.0",
     main_index |-> export_main_index(ix),
     context_index |-> export_context_index(ix, ord),
     registry |-> export_registry(c, ix)]

\* for the keys of an exported map, the choices of the key that is inserted
\* last into each shard: shard -> key
LastInShard(keys) ==
    {f \in [{keystore_hash_str(k) : k \in keys} -> keys] :
        \A h \in DOMAIN f : keystore_hash_str(f[h]) = h}

\* import_main_index: every term replaces its shard by a new map holding the
\* term alone, so of the terms of one shard the last one stays
import_main_index(m, data, lst) ==
    LET kept == {t \in DOMAIN m : keystore_hash_str(t) \notin DOMAIN lst}
        put == {lst[h] : h \in DOMAIN lst}
    IN [t \in kept \cup put |-> IF t \in put THEN data[t] ELSE m[t]]

\* import_context_index: every "ctx_N" replaces the shard of its own hash by
\* its terms
import_context_index(cx, data, lst) ==
    LET kept == {k \in DOMAIN cx : k[1] \notin DOMAIN lst}
        put == {<<h, t>> : h \in DOMAIN lst, t \in UNION {DOMAIN data[nm] : nm \in DOMAIN data}}
        here == {k \in put : k[2] \in DOMAIN data[lst[k[1]]]}
    IN [k \in kept \cup here |-> IF k \in here THEN data[lst[k[1]]][k[2]] ELSE cx[k]]

\* import_registry: the data goes in only when its form is the Register's form
import_registry(c, r, registry) ==
    IF registry.kind = "Set" /\ ~c.fastupdate
    THEN [id \in (DOMAIN r) \cup registry.ids |-> IF id \in DOMAIN r THEN r[id] ELSE <<>>]
    ELSE IF registry.kind = "Map" /\ c.fastupdate
    THEN [id \in (DOMAIN r) \cup registry.ids |->
             IF id \in registry.ids THEN registry.refs[id] ELSE r[id]]
    ELSE r

\* Index::import; an unsupported version leaves the index as it is
import(c, ix, data, lstm, lstc) ==
    IF data.version # "0.1.0" THEN ix
    ELSE LET e == clear(ix) IN
         [map |-> import_main_index(e.map, data.main_index, lstm),
          ctx |-> import_context_index(e.ctx, data.context_index, lstc),
          reg |-> import_registry(c, e.reg, data.registry)]

-----------------------------------------------------------------------------
(* Chunked export and import (serialize/chunked.rs).                        *)

CHUNK_SIZE_REG == 250000

CHUNK_SIZE_MAP == 5000

CHUNK_SIZE_CTX == 1000

\* calculate_chunk_size
calculate_chunk_size(total_size, base_size) ==
    IF total_size <= base_size THEN base_size ELSE base_size

\* slice::chunks(chunk_size)
RECURSIVE chunks(_, _)
chunks(items, chunk_size) ==
    IF items = <<>> THEN <<>>
    ELSE LET n == Min(chunk_size, Len(items)) IN
         <<SubSeq(items, 1, n)>> \o chunks(SubSeq(items, n + 1, Len(items)), chunk_size)

\* the ChunkData values made of the items of one section
ChunkDatas(items, base_size, data_type) ==
    LET chunk_size == calculate_chunk_size(Len(items), base_size)
        total_chunks == (Len(items) + chunk_size - 1) \div chunk_size
        cs == chunks(items, chunk_size)
    IN [i \in 1..Len(cs) |->
           [chunk_index |-> i - 1, total_chunks |-> total_chunks,
            data_type |-> data_type, data |-> cs[i]]]

\* export_registry_chunked: the ids as strings, whatever the Register's form
export_registry_chunked(registry) ==
    LET ids == SetToSeq(registry.ids) IN
    ChunkDatas([i \in 1..Len(ids) |-> to_string(ids[i])], CHUNK_SIZE_REG, "Registry")

\* export_main_index_chunked: (term, ids) pairs
export_main_index_chunked(main_index) ==
    LET ks == SetToSeq(DOMAIN main_index) IN
    ChunkDatas([i \in 1..Len(ks) |-> <<ks[i], main_index[ks[i]]>>], CHUNK_SIZE_MAP, "MainIndex")

\* export_context_index_chunked: ("ctx_N", term -> ids) pairs
export_context_index_chunked(context_index) ==
    LET ks == SetToSeq(DOMAIN context_index) IN
    ChunkDatas([i \in 1..Len(ks) |-> <<ks[i], context_index[ks[i]]>>], CHUNK_SIZE_CTX,
               "ContextIndex")

\* ChunkedSerializer::export_chunked: the chunks handed to the callback
export_chunked(c, ix, ord) ==
    LET export_data == export(c, ix, ord) IN
    export_registry_chunked(export_data.registry)
        \o export_main_index_chunked(export_data.main_index)
        \o export_context_index_chunked(export_data.context_index)

\* the items of the chunks of one data type
ItemsOf(cs, data_type) ==
    UNION {SeqToSet(cs[i].data) : i \in {j \in DOMAIN cs : cs[j].data_type = data_type}}

\* the HashMap a loop of insert(key, value) over (key, value) items builds
Collected(items) ==
    [k \in {it[1] : it \in items} |-> (CHOOSE it \in items : it[1] = k)[2]]

\* ChunkedSerializer::import_chunked: the chunks are collected and imported
\* into the index as it stands
import_chunked(c, ix, cs, lstm, lstc) ==
    LET has_registry == \E i \in DOMAIN cs : cs[i].data_type = "Registry"
        registry_data == [kind |-> "Set",
                          ids |-> {parse_u64(it) : it \in ItemsOf(cs, "Registry")},
                          refs |-> EmptyMap]
        main_index_data == Collected(ItemsOf(cs, "MainIndex"))
        context_index_data == Collected(ItemsOf(cs, "ContextIndex"))
    IN [reg |-> IF has_registry THEN import_registry(c, ix.reg, registry_data) ELSE ix.reg,
        map |-> import_main_index(ix.map, main_index_data, lstm),
        ctx |-> import_context_index(ix.ctx, context_index_data, lstc)]

-----------------------------------------------------------------------------
(* Specification of an export of the Index followed by an import into the   *)
(* second Index tgt, which was made by Index::new with the same options.    *)

\* "a b", "ab": the terms "b" and "ab" have the same shard
SerialTexts == { <<97, 32, 98>>, <<97, 98>> }

\* "a b"
TargetTexts == { <<97, 32, 98>> }

\* "a b", "ab", "b"
SerialQueries == { <<97, 32, 98>>, <<97, 98>>, <<98>> }

SerialConfigs ==
    { Config(FALSE, "strict", 0, FALSE, FALSE),
      Config(TRUE, "strict", 0, FALSE, FALSE),
      Config(FALSE, "strict", 2, FALSE, FALSE) }

SerialInit ==
    /\ cfg \in SerialConfigs
    /\ map = EmptyMap
    /\ ctx = EmptyMap
    /\ reg = EmptyMap
    /\ last = Op("new", 0, <<>>)
    /\ sc = <<>>
    /\ computed = <<>>
    /\ now = 0
    /\ enc = <<>>
    /\ doc = <<>>
    /\ aix = <<>>
    /\ tgt = EmptyIndex
    /\ bc = <<>>

\* the import has been done: the run ends with it
Imported == last.op \in {"import", "import_chunked"}

\* Index::add on the second index
AddTarget ==
    \E id \in DocIds, text \in TargetTexts :
        /\ ~Imported
        /\ tgt' = add_document(cfg, tgt, id, text, FALSE)
        /\ last' = Op("add_target", id, text)
        /\ UNCHANGED <<cfg, enc, doc, map, ctx, reg, sc, computed, now, aix, bc>>

\* tgt.import(index.export(config), config)
Import ==
    \E ord \in ShardOrders(ctx) :
        LET data == export(cfg, Ix, ord) IN
        \E lstm \in LastInShard(DOMAIN data.main_index),
           lstc \in LastInShard(DOMAIN data.context_index) :
            /\ ~Imported
            /\ tgt' = import(cfg, tgt, data, lstm, lstc)
            /\ last' = [op |-> "import", id |-> 0, text |-> <<>>, fresh |-> tgt = EmptyIndex]
            /\ UNCHANGED <<cfg, enc, doc, map, ctx, reg, sc, computed, now, aix, bc>>

\* export_chunked of the index, then import_chunked of the chunks into tgt;
\* whole is what Index::import of the same export leaves in tgt
ImportChunked ==
    \E ord \in ShardOrders(ctx) :
        LET data == export(cfg, Ix, ord) IN
        \E lstm \in LastInShard(DOMAIN data.main_index),
           lstc \in LastInShard(DOMAIN data.context_index) :
            /\ ~Imported
            /\ tgt' = import_chunked(cfg, tgt, export_chunked(cfg, Ix, ord), lstm, lstc)
            /\ last' = [op |-> "import_chunked", id |-> 0, text |-> <<>>,
                        fresh |-> tgt = EmptyIndex,
                        whole |-> import(cfg, tgt, data, lstm, lstc)]
            /\ UNCHANGED <<cfg, enc, doc, map, ctx, reg, sc, computed, now, aix, bc>>

SerialNext ==
    \/ (~Imported /\ Add(DocIds, SerialTexts))
    \/ (~Imported /\ Update(DocIds, SerialTexts))
    \/ (~Imported /\ Remove(DocIds))
    \/ (~Imported /\ Clear)
    \/ AddTarget
    \/ Import
    \/ ImportChunked

SpecSerial == SerialInit /\ [][SerialNext]_vars

\* C7: after an export of the index is imported into a fresh index, every
\* query returns on the imported index the set of document ids it returns
\* on the exported one
C7_ImportAnswersLikeOriginal ==
    (last.op = "import" /\ last.fresh) =>
        \A q \in SerialQueries :
            SeqToSet(search(cfg, tgt, DefaultOptions(q)))
                = SeqToSet(search(cfg, Ix, DefaultOptions(q)))

\* an index with posting lists and registered documents was imported into a
\* fresh index
C7_ImportedNonEmpty ==
    /\ last.op = "import"
    /\ last.fresh
    /\ DOMAIN map # {}
    /\ DOMAIN reg # {}

\* C8: a chunked import leaves the target, empty or not before it, in the
\* state (map, ctx, Register) the import of the whole export leaves it in
C8_ChunkedEqualsWhole ==
    last.op = "import_chunked" => tgt = last.whole

\* a chunked import of a non-empty index
C8_ChunkedImported ==
    /\ last.op = "import_chunked"
    /\ DOMAIN map # {}
    /\ DOMAIN reg # {}

-----------------------------------------------------------------------------
(* The SearchCache used directly (search/cache.rs), with a holder of the    *)
(* store's lock that panics and so poisons the Mutex.                       *)

\* "a", "b"
SearchCacheKeys == { <<97>>, <<98>> }

\* the SearchResults stored
SearchCacheData == { <<1>>, <<1, 2>> }

SearchCacheOps == {"get", "set", "remove", "clear", "stats"}

\* the cache with its lock not poisoned
Unpoisoned(c) == [c EXCEPT !.poisoned = FALSE]

\* the record of a cache operation: what it returned, whether the lock was
\* poisoned when it was called, and the cache and return value the operation
\* yields when the lock is not poisoned
CacheCalled(op, key, ret, normal) ==
    [op |-> op, id |-> 0, text |-> key, ret |-> ret, poisoned |-> sc.poisoned,
     normal |-> normal]

SearchCacheInit ==
    /\ cfg = Config(FALSE, "strict", 0, FALSE, FALSE)
    /\ map = EmptyMap
    /\ ctx = EmptyMap
    /\ reg = EmptyMap
    /\ last = Op("new", 0, <<>>)
    /\ \E max_size \in {1, 2}, ttl \in {<<>>, <<1>>} : sc = SearchCache_new(max_size, ttl)
    /\ computed = <<>>
    /\ now = 0
    /\ enc = <<>>
    /\ doc = <<>>
    /\ aix = <<>>
    /\ tgt = <<>>
    /\ bc = <<>>

\* SearchCache::get(key)
CacheGet ==
    \E key \in SearchCacheKeys :
        LET out == SearchCache_get(sc, key, now) IN
        /\ sc.hit_count + sc.miss_count < MaxRequests
        /\ sc' = out.c
        /\ last' = CacheCalled("get", key, out.ret, SearchCache_get(Unpoisoned(sc), key, now))
        /\ UNCHANGED <<cfg, enc, doc, map, ctx, reg, computed, now, aix, tgt, bc>>

\* SearchCache::set(key, data)
CacheSet ==
    \E key \in SearchCacheKeys, data \in SearchCacheData :
        /\ sc' = SearchCache_set(sc, key, data, now)
        /\ last' = CacheCalled("set", key, <<>>,
                               [c |-> SearchCache_set(Unpoisoned(sc), key, data, now),
                                ret |-> <<>>])
        /\ UNCHANGED <<cfg, enc, doc, map, ctx, reg, computed, now, aix, tgt, bc>>

\* SearchCache::remove(key)
CacheRemove ==
    \E key \in SearchCacheKeys :
        LET out == SearchCache_remove(sc, key) IN
        /\ sc' = out.c
        /\ last' = CacheCalled("remove", key, out.ret, SearchCache_remove(Unpoisoned(sc), key))
        /\ UNCHANGED <<cfg, enc, doc, map, ctx, reg, computed, now, aix, tgt, bc>>

\* SearchCache::clear
CacheClear ==
    /\ sc' = SearchCache_clear(sc)
    /\ last' = CacheCalled("clear", <<>>, <<>>,
                           [c |-> SearchCache_clear(Unpoisoned(sc)), ret |-> <<>>])
    /\ UNCHANGED <<cfg, enc, doc, map, ctx, reg, computed, now, aix, tgt, bc>>

\* SearchCache::stats
CacheStats ==
    /\ last' = CacheCalled("stats", <<>>, SearchCache_stats(sc),
                           [c |-> Unpoisoned(sc), ret |-> SearchCache_stats(Unpoisoned(sc))])
    /\ UNCHANGED <<cfg, enc, doc, map, ctx, reg, sc, computed, now, aix, tgt, bc>>

\* a thread panics while it holds the guard of store.lock(): the Mutex is
\* poisoned, and every later lock() returns Err
CachePoison ==
    /\ ~sc.poisoned
    /\ sc' = [sc EXCEPT !.poisoned = TRUE]
    /\ last' = Op("poison", 0, <<>>)
    /\ UNCHANGED <<cfg, enc, doc, map, ctx, reg, computed, now, aix, tgt, bc>>

SearchCacheNext ==
    \/ CacheGet
    \/ CacheSet
    \/ CacheRemove
    \/ CacheClear
    \/ CacheStats
    \/ CachePoison
    \/ Tick

SpecSearchCache == SearchCacheInit /\ [][SearchCacheNext]_vars

\* C9: a cache operation (get, set, remove, clear, stats) called after the
\* lock was poisoned returns what it returns, and leaves the cache as it
\* leaves it, when the lock is not poisoned
C9_PoisonedOperationTakesEffect ==
    (last.op \in SearchCacheOps /\ last.poisoned) =>
        /\ last.ret = last.normal.ret
        /\ Unpoisoned(sc) = last.normal.c

\* an operation was called on a poisoned cache that holds an entry
C9_CalledAfterPoison ==
    /\ last.op \in SearchCacheOps
    /\ last.poisoned
    /\ Len(sc.store) > 0

-----------------------------------------------------------------------------
(* The bm25 result Cache (bm25 index/cache.rs).  entries is a function from *)
(* the keys present to their CacheEntry; times are clock ticks, and ttl is  *)
(* in ticks.  Every operation recovers the guard of a poisoned lock with    *)
(* into_inner(), so the poisoned flag changes nothing any operation does.   *)

\* CacheEntry::new
CacheEntry_new(value, t) ==
    [value |-> value, created_at |-> t, last_accessed |-> t, access_count |-> 0]

\* CacheEntry::access
access(entry, t) == [entry EXCEPT !.last_accessed = t, !.access_count = @ + 1]

\* CacheEntry::is_expired
is_expired(entry, ttl, t) == t - entry.created_at > ttl

\* Cache::new(max_size, ttl_seconds)
Cache_new(max_size, ttl) ==
    [entries |-> [k \in {} |-> 0], max_size |-> max_size, ttl |-> ttl,
     stats |-> [hits |-> 0, misses |-> 0, size |-> 0, evictions |-> 0],
     poisoned |-> FALSE]

Without(entries, keys) == [k \in (DOMAIN entries) \ keys |-> entries[k]]

\* Cache::size
Cache_size(c) == Cardinality(DOMAIN c.entries)

\* Cache::get; ret is <<>> for None and <<value>> for Some(value)
Cache_get(c, key, t) ==
    IF key \in DOMAIN c.entries
    THEN IF is_expired(c.entries[key], c.ttl, t)
         THEN [c |-> [c EXCEPT !.entries = Without(@, {key}), !.stats.misses = @ + 1],
               ret |-> <<>>]
         ELSE [c |-> [c EXCEPT !.entries[key] = access(@, t),
                               !.stats.hits = @ + 1,
                               !.stats.size = Cache_size(c)],
               ret |-> <<c.entries[key].value>>]
    ELSE [c |-> [c EXCEPT !.stats.misses = @ + 1, !.stats.size = Cache_size(c)],
          ret |-> <<>>]

\* Cache::evict: the caches it can leave.  First the entries not accessed for
\* more than ttl / 2, or never accessed, go; if the cache is still full,
\* min(max_size / 4, n) of its n unexpired entries go, whichever the HashMap
\* yields first
evict(c, t) ==
    IF DOMAIN c.entries = {} THEN {c}
    ELSE LET expired_keys == {k \in DOMAIN c.entries :
                                \/ 2 * (t - c.entries[k].last_accessed) > c.ttl
                                \/ c.entries[k].access_count = 0}
             c1 == [c EXCEPT !.entries = Without(@, expired_keys)]
         IN IF Cache_size(c1) >= c.max_size
            THEN LET keys_to_remove == {k \in DOMAIN c1.entries :
                                           ~is_expired(c1.entries[k], c.ttl, t)}
                     to_remove == Min(c.max_size \div 4, Cardinality(keys_to_remove))
                 IN {[c1 EXCEPT !.entries = Without(@, ks),
                                !.stats.evictions = @ + to_remove] :
                        ks \in {x \in SUBSET keys_to_remove : Cardinality(x) = to_remove}}
            ELSE {c1}

\* Cache::insert: the caches it can leave
Cache_insert(c, key, value, t) ==
    {[e EXCEPT !.entries = [k \in (DOMAIN e.entries) \cup {key} |->
                               IF k = key THEN CacheEntry_new(value, t) ELSE e.entries[k]],
               !.stats.size = Cardinality((DOMAIN e.entries) \cup {key})] :
        e \in IF Cache_size(c) >= c.max_size THEN evict(c, t) ELSE {c}}

\* Cache::remove; ret is <<>> for None and <<value>> for Some(value)
Cache_remove(c, key) ==
    IF key \in DOMAIN c.entries
    THEN [c |-> [c EXCEPT !.entries = Without(@, {key}),
                          !.stats.size = Cache_size(c) - 1],
          ret |-> <<c.entries[key].value>>]
    ELSE [c |-> c, ret |-> <<>>]

\* Cache::stats
Cache_stats(c) == c.stats

\* Cache::clear
Cache_clear(c) == [c EXCEPT !.entries = Without(@, DOMAIN @), !.stats.size = 0]

\* Cache::cleanup
cleanup(c, t) ==
    LET gone == {k \in DOMAIN c.entries : is_expired(c.entries[k], c.ttl, t)} IN
    [c EXCEPT !.entries = Without(@, gone),
              !.stats.evictions = @ + Cardinality(gone),
              !.stats.size = Cache_size(c) - Cardinality(gone)]

-----------------------------------------------------------------------------
(* The bm25 result Cache as a state machine *)

\* bounds: the keys and the number of lookups
MaxKey == 3

MaxLookups == 2

ResultKeys == 1..MaxKey

ResultValues == {42, 100}

\* a cache operation, the key it was called with, what it returned, and
\* whether it found the cache full
ResultCalled(op, key, ret) ==
    [op |-> op, id |-> key, text |-> <<>>, ret |-> ret,
     full |-> Cache_size(bc) >= bc.max_size]

ResultCacheInit ==
    /\ cfg = Config(FALSE, "strict", 0, FALSE, FALSE)
    /\ map = EmptyMap
    /\ ctx = EmptyMap
    /\ reg = EmptyMap
    /\ last = Op("new", 0, <<>>)
    /\ sc = <<>>
    /\ computed = <<>>
    /\ now = 0
    /\ enc = <<>>
    /\ doc = <<>>
    /\ aix = <<>>
    /\ tgt = <<>>
    /\ \E max_size \in {0, 1, 2}, ttl \in {2} : bc = Cache_new(max_size, ttl)

\* cache.get(&key)
ResultGet ==
    \E key \in ResultKeys :
        LET out == Cache_get(bc, key, now) IN
        /\ bc.stats.hits + bc.stats.misses < MaxLookups
        /\ bc' = out.c
        /\ last' = ResultCalled("get", key, out.ret)
        /\ UNCHANGED <<cfg, enc, doc, map, ctx, reg, sc, computed, now, aix, tgt>>

\* cache.insert(key, value)
ResultInsert ==
    \E key \in ResultKeys, value \in ResultValues :
        /\ bc' \in Cache_insert(bc, key, value, now)
        /\ last' = ResultCalled("insert", key, <<>>)
        /\ UNCHANGED <<cfg, enc, doc, map, ctx, reg, sc, computed, now, aix, tgt>>

\* cache.remove(&key)
ResultRemove ==
    \E key \in ResultKeys :
        LET out == Cache_remove(bc, key) IN
        /\ bc' = out.c
        /\ last' = ResultCalled("remove", key, out.ret)
        /\ UNCHANGED <<cfg, enc, doc, map, ctx, reg, sc, computed, now, aix, tgt>>

\* cache.clear()
ResultClear ==
    /\ bc' = Cache_clear(bc)
    /\ last' = ResultCalled("clear", 0, <<>>)
    /\ UNCHANGED <<cfg, enc, doc, map, ctx, reg, sc, computed, now, aix, tgt>>

\* cache.cleanup()
ResultCleanup ==
    /\ bc' = cleanup(bc, now)
    /\ last' = ResultCalled("cleanup", 0, <<>>)
    /\ UNCHANGED <<cfg, enc, doc, map, ctx, reg, sc, computed, now, aix, tgt>>

\* cache.stats()
ResultStats ==
    /\ last' = ResultCalled("stats", 0, Cache_stats(bc))
    /\ UNCHANGED <<cfg, enc, doc, map, ctx, reg, sc, computed, now, aix, tgt, bc>>

\* a thread panics while it holds the write guard of entries
ResultPoison ==
    /\ ~bc.poisoned
    /\ bc' = [bc EXCEPT !.poisoned = TRUE]
    /\ last' = Op("poison", 0, <<>>)
    /\ UNCHANGED <<cfg, enc, doc, map, ctx, reg, sc, computed, now, aix, tgt>>

ResultCacheNext ==
    \/ ResultGet
    \/ ResultInsert
    \/ ResultRemove
    \/ ResultClear
    \/ ResultCleanup
    \/ ResultStats
    \/ ResultPoison
    \/ Tick

SpecResultCache == ResultCacheInit /\ [][ResultCacheNext]_vars

\* C10: whatever insert, get and remove operations were applied, the cache
\* holds at most max_size entries
C10_SizeWithinMaxSize ==
    Cache_size(bc) <= bc.max_size

\* an insert found the cache full and ran the eviction
C10_InsertedIntoFullCache ==
    /\ last.op = "insert"
    /\ last.full
    /\ bc.max_size > 0
    /\ bc.stats.hits > 0

-----------------------------------------------------------------------------
(* Either cache in use, its lock never poisoned: a run works on a           *)
(* SearchCache (bc stays <<>>) or on a bm25 Cache (sc stays <<>>).          *)

CachesInit ==
    /\ cfg = Config(FALSE, "strict", 0, FALSE, FALSE)
    /\ map = EmptyMap
    /\ ctx = EmptyMap
    /\ reg = EmptyMap
    /\ last = Op("new", 0, <<>>)
    /\ computed = <<>>
    /\ now = 0
    /\ enc = <<>>
    /\ doc = <<>>
    /\ aix = <<>>
    /\ tgt = <<>>
    /\ \/ /\ \E max_size \in {1, 2}, ttl \in {<<>>, <<1>>} :
                sc = SearchCache_new(max_size, ttl)
          /\ bc = <<>>
       \/ /\ sc = <<>>
          /\ \E max_size \in {1, 2}, ttl \in {1, 2} : bc = Cache_new(max_size, ttl)

CachesNext ==
    \/ (sc # <<>> /\ CacheGet)
    \/ (sc # <<>> /\ CacheSet)
    \/ (bc # <<>> /\ ResultGet)
    \/ (bc # <<>> /\ ResultInsert)
    \/ Tick

SpecCaches == CachesInit /\ [][CachesNext]_vars

\* a step that is a SearchCache::get finds the key absent and misses, or
\* finds an entry older than the TTL, removes it and misses, or returns the
\* entry's data, counts the access on the entry and makes it the most
\* recently used
TtlGetOfSearchCache ==
    (sc # <<>> /\ sc' # sc /\ last'.op = "get") =>
        LET key == last'.text
            i == LruFind(sc.store, key)
        IN IF i = 0 THEN last'.ret = <<>>
           ELSE IF sc.default_ttl # <<>> /\ now - sc.store[i].created_at > sc.default_ttl[1]
           THEN /\ last'.ret = <<>>
                /\ LruFind(sc'.store, key) = 0
                /\ sc'.miss_count = sc.miss_count + 1
           ELSE /\ last'.ret = <<sc.store[i].data>>
                /\ sc'.store[1] = [sc.store[i] EXCEPT !.access_count = @ + 1]

\* the same of a step that is a Cache::get of the bm25 cache: the access is
\* recorded as access_count + 1 and last_accessed = now
TtlGetOfResultCache ==
    (bc # <<>> /\ bc' # bc /\ last'.op = "get") =>
        LET key == last'.id IN
        IF key \notin DOMAIN bc.entries THEN last'.ret = <<>>
        ELSE IF now - bc.entries[key].created_at > bc.ttl
        THEN /\ last'.ret = <<>>
             /\ key \notin DOMAIN bc'.entries
             /\ bc'.stats.misses = bc.stats.misses + 1
        ELSE /\ last'.ret = <<bc.entries[key].value>>
             /\ bc'.entries[key] = [bc.entries[key] EXCEPT !.access_count = @ + 1,
                                                            !.last_accessed = now]

\* C11: a cache get never returns an entry whose age exceeds the TTL: a get
\* that finds the entry expired removes it and reports a miss, any other get
\* of a stored key returns the stored value and records the access on the
\* entry
C11_GetHonoursTtl ==
    [][TtlGetOfSearchCache /\ TtlGetOfResultCache]_vars

\* a get has just missed on a key that an earlier get had hit: its entry
\* outlived the TTL and the get removed it, leaving the cache empty
C11_GetAfterExpiry ==
    /\ last.op = "get"
    /\ last.ret = <<>>
    /\ \/ sc # <<>> /\ sc.store = <<>> /\ sc.hit_count = 1
       \/ bc # <<>> /\ DOMAIN bc.entries = {} /\ bc.stats.hits = 1

\* the keys a SearchCache holds
StoreKeys(store) == {store[i].key : i \in DOMAIN store}

\* a step that is a SearchCache::set leaves the key it set in the cache, and
\* evicts no entry while an entry used less recently (further from the front
\* of the store) stays
LruSetOfSearchCache ==
    (sc # <<>> /\ last'.op = "set") =>
        LET key == last'.text
            evicted == StoreKeys(sc.store) \ StoreKeys(sc'.store)
            staying == (StoreKeys(sc.store) \cap StoreKeys(sc'.store)) \ {key}
        IN /\ key \in StoreKeys(sc'.store)
           /\ \A k \in evicted, j \in staying :
                  LruFind(sc.store, j) < LruFind(sc.store, k)

\* the same of a step that is a Cache::insert of the bm25 cache, where an
\* entry was last used at its last_accessed
LruSetOfResultCache ==
    (bc # <<>> /\ last'.op = "insert") =>
        LET key == last'.id
            evicted == (DOMAIN bc.entries) \ (DOMAIN bc'.entries)
            staying == ((DOMAIN bc.entries) \cap (DOMAIN bc'.entries)) \ {key}
        IN /\ key \in DOMAIN bc'.entries
           /\ \A k \in evicted, j \in staying :
                  bc.entries[j].last_accessed >= bc.entries[k].last_accessed

\* C12: a set on a full cache evicts the least recently used entries: no
\* entry is evicted while an entry used less recently stays in the cache,
\* and the entry just set is in the cache after the set
C12_SetEvictsLeastRecentlyUsed ==
    [][LruSetOfSearchCache /\ LruSetOfResultCache]_vars

\* a set has found the cache full and has evicted an entry
C12_SetEvicted ==
    \/ /\ sc # <<>>
       /\ last.op = "set"
       /\ Len(sc.store) = sc.max_size
       /\ last.text \in StoreKeys(sc.store)
       /\ sc.hit_count > 0
       /\ Len(sc.store) = 2
    \/ /\ bc # <<>>
       /\ last.op = "insert"
       /\ last.full
       /\ Cache_size(bc) <= bc.max_size

-----------------------------------------------------------------------------
(* Batches: BatchAsyncOperations::execute (async_.rs) over an AsyncIndex,   *)
(* and BatchExecutor::execute_batch (document/batch.rs) whose add, update   *)
(* and remove functions call the Index.  A batch is a sequence of WriteOp   *)
(* records; a result is "Ok" or "Err".                                      *)

\* bound: the operations of one batch
MaxBatch == 2

\* the operation ends in a panic
OpPanics(c, ix, w) ==
    CASE w.kind = "add" -> add_panics(c, ix, w.id, w.content, w.append)
      [] OTHER -> remove_panics(c, ix, w.id, FALSE)

\* BatchAsyncOperations::execute: every operation is awaited in turn and its
\* result pushed; a panic of the blocking task comes back as Err(JoinError)
\* and the tokio lock is free again.  Yields the index and the results.
RECURSIVE BatchAsyncOperations_execute(_, _, _, _)
BatchAsyncOperations_execute(c, ix, operations, results) ==
    IF operations = <<>> THEN [ix |-> ix, results |-> results]
    ELSE LET operation == Head(operations)
             result == IF OpPanics(c, ix, operation) THEN "Err" ELSE "Ok"
         IN BatchAsyncOperations_execute(c, ApplyOp(c, ix, operation), Tail(operations),
                                         Append(results, result))

\* BatchExecutor::execute_batch from operation i on (1-based): "self.execute(op)?"
\* returns at the first Err.  fails holds the positions at which the called
\* function returns Err, which it does before it changes anything.  Yields
\* the index, the one result, the number of operations executed and whether
\* a panic ended the call.
RECURSIVE execute_batch(_, _, _, _, _)
execute_batch(c, ix, operations, fails, i) ==
    IF i > Len(operations)
    THEN [ix |-> ix, result |-> "Ok", executed |-> Len(operations), panicked |-> FALSE]
    ELSE IF i \in fails
    THEN [ix |-> ix, result |-> "Err", executed |-> i, panicked |-> FALSE]
    ELSE IF OpPanics(c, ix, operations[i])
    THEN [ix |-> ApplyOp(c, ix, operations[i]), result |-> "Err", executed |-> i,
          panicked |-> TRUE]
    ELSE execute_batch(c, ApplyOp(c, ix, operations[i]), operations, fails, i + 1)

\* "a b", "A"
BatchTexts == { <<97, 32, 98>>, <<65>> }

BatchOps ==
    {WriteOp("add", 1, text, FALSE) : text \in BatchTexts}
        \cup {WriteOp("update", 1, text, FALSE) : text \in BatchTexts}
        \cup {WriteOp("remove", id, <<>>, FALSE) : id \in DocIds}

Batches == UNION {[1..n -> BatchOps] : n \in 1..MaxBatch}

BatchConfigs ==
    { Config(FALSE, "strict", 0, FALSE, FALSE),
      DebugBuild(Config(TRUE, "strict", 0, FALSE, FALSE)) }

\* the record of a batch: its operations, the results reported, the
\* positions of the operations that failed and the number of operations
\* that were executed
BatchDone(op, operations, results, failed, executed) ==
    [op |-> op, id |-> 0, text |-> <<>>, operations |-> operations,
     results |-> results, failed |-> failed, executed |-> executed]

BatchInit ==
    /\ cfg \in BatchConfigs
    /\ map = EmptyMap
    /\ ctx = EmptyMap
    /\ reg = EmptyMap
    /\ last = Op("new", 0, <<>>)
    /\ sc = <<>>
    /\ computed = <<>>
    /\ now = 0
    /\ enc = <<>>
    /\ doc = <<>>
    /\ aix = <<>>
    /\ tgt = <<>>
    /\ bc = <<>>

\* batch.execute(&async_index).await
BatchAsyncExecute ==
    \E operations \in Batches :
        LET out == BatchAsyncOperations_execute(cfg, Ix, operations, <<>>) IN
        /\ Alive
        /\ SetIx(out.ix)
        /\ last' = BatchDone("batch_async", operations, out.results,
                             {i \in DOMAIN out.results : out.results[i] = "Err"},
                             Len(operations))
        /\ UNCHANGED <<cfg, enc, doc, notIndex>>

\* executor.execute_batch(&batch)
BatchExecute ==
    \E operations \in Batches : \E fails \in SUBSET (DOMAIN operations) :
        LET out == execute_batch(cfg, Ix, operations, fails, 1) IN
        /\ Alive
        /\ SetIx(out.ix)
        /\ last' = BatchDone(IF out.panicked THEN "panic" ELSE "batch", operations,
                             <<out.result>>,
                             IF out.result = "Err" THEN {out.executed} ELSE {},
                             out.executed)
        /\ UNCHANGED <<cfg, enc, doc, notIndex>>

BatchNext ==
    \/ BatchAsyncExecute
    \/ BatchExecute

SpecBatch == BatchInit /\ [][BatchNext]_vars

\* C13: when an operation of a batch fails, the operations submitted after
\* it are executed all the same, and one result is reported for each
\* operation submitted
C13_FailureDoesNotStopBatch ==
    (last.op \in {"batch_async", "batch"} /\ last.failed # {}) =>
        /\ last.executed = Len(last.operations)
        /\ Len(last.results) = Len(last.operations)

\* a batch of two operations whose first operation failed
C13_FirstOperationFailed ==
    /\ last.op \in {"batch_async", "batch"}
    /\ Len(last.operations) = 2
    /\ 1 \in last.failed

-----------------------------------------------------------------------------
(* Cancellation of an async write operation (async_.rs): the caller drops   *)
(* the future of add_async / update_async / remove_async / clear_async      *)
(* while it awaits the JoinHandle of spawn_blocking.  Dropping a JoinHandle *)
(* detaches the task; the closure given to spawn_blocking runs on.  aix has *)
(* two more history fields here:                                            *)
(*   [cancelled]  "no", or the writing task's position when the caller      *)
(*                dropped the future                                        *)
(*   [before]     the index when the future was dropped                     *)

CancelConfigs ==
    { Config(FALSE, "strict", 0, FALSE, FALSE),
      Config(TRUE, "strict", 0, FALSE, FALSE) }

CancelInit ==
    /\ NewIndex(CancelConfigs)
    /\ sc = <<>>
    /\ computed = <<>>
    /\ now = 0
    /\ enc = <<>>
    /\ doc = <<>>
    /\ aix = [writer |-> FALSE, readers |-> 0,
              wpc |-> "idle", w |-> WriteOp("add", 0, <<>>, FALSE),
              rpc |-> "idle", ro |-> DefaultOptions(<<>>),
              pre |-> EmptyIndex, post |-> EmptyIndex,
              overlap |-> FALSE, obs |-> <<>>,
              cancelled |-> "no", before |-> EmptyIndex]
    /\ tgt = <<>>
    /\ bc = <<>>

\* AsyncIndex::clear_async up to spawn_blocking
clear_async ==
    /\ aix.wpc = "idle"
    /\ aix' = Spawned(WriteOp("clear", 0, <<>>, FALSE))
    /\ UNCHANGED <<cfg, enc, doc, tgt, bc, map, ctx, reg, last, sc, computed, now>>

\* let mut index = index.blocking_write(), in the task of clear_async
ClearLock ==
    /\ aix.wpc = "waiting"
    /\ aix.w.kind = "clear"
    /\ blocking_write(aix)
    /\ aix' = [aix EXCEPT !.writer = TRUE, !.wpc = "clear",
                          !.pre = Ix, !.post = clear(Ix)]
    /\ UNCHANGED <<cfg, enc, doc, tgt, bc, map, ctx, reg, last, sc, computed, now>>

\* index.clear(); Ok(())
WriterClear ==
    /\ aix.wpc = "clear"
    /\ SetIx(clear(Ix))
    /\ aix' = [aix EXCEPT !.wpc = "unlock"]
    /\ UNCHANGED <<cfg, enc, doc, tgt, bc, last, sc, computed, now>>

\* the caller drops the future at ".await": the JoinHandle is dropped, the
\* spawned task is neither aborted nor told
Cancel ==
    /\ aix.cancelled = "no"
    /\ aix.wpc # "idle"
    /\ aix' = [aix EXCEPT !.cancelled = IF aix.wpc = "waiting" THEN "waiting" ELSE "locked",
                          !.before = Ix]
    /\ UNCHANGED <<cfg, enc, doc, tgt, bc, map, ctx, reg, last, sc, computed, now>>

CancelNext ==
    \/ (aix.cancelled = "no" /\ add_async)
    \/ (aix.cancelled = "no" /\ update_async)
    \/ (aix.cancelled = "no" /\ remove_async)
    \/ (aix.cancelled = "no" /\ clear_async)
    \/ Cancel
    \/ (aix.w.kind # "clear" /\ WriterLock)
    \/ ClearLock
    \/ WriterRemove
    \/ WriterPush
    \/ WriterRegister
    \/ WriterClear
    \/ WriterUnlock

SpecCancel == CancelInit /\ [][CancelNext]_vars

\* C14: an async write operation cancelled before its task took the index
\* lock leaves the index as it was when it was cancelled, then and ever
\* after; one cancelled after its task took the lock ends with the whole
\* effect of the operation applied
C14_CancelBeforeLockHasNoEffect ==
    /\ aix.cancelled = "waiting" => Ix = aix.before
    /\ (aix.cancelled = "locked" /\ aix.wpc = "idle") => Ix = aix.post

\* an operation that changes the index was cancelled while its task waited
\* for the lock, and the task has ended
C14_CancelledWhileWaiting ==
    /\ aix.cancelled = "waiting"
    /\ aix.wpc = "idle"
    /\ aix.post # aix.pre

-----------------------------------------------------------------------------
(* Search results and the Register *)

\* every id a search of ix returns is one contains() answers true for
SearchedAreContained(ix) ==
    \A q \in SerialQueries :
        \A id \in SeqToSet(search(cfg, ix, DefaultOptions(q))) : contains(ix, id)

\* C15: in every state reached by add, update, remove, clear and import
\* (whole or chunked), of the index written to and of the index imported
\* into, every DocId a search returns satisfies contains(id)
C15_SearchReturnsRegisteredIds ==
    /\ SearchedAreContained(Ix)
    /\ SearchedAreContained(tgt)

\* an import has been done and a search of the imported index returns ids
C15_ImportedAndFound ==
    /\ Imported
    /\ \E q \in SerialQueries : search(cfg, tgt, DefaultOptions(q)) # <<>>

-----------------------------------------------------------------------------
(* Removal and the Register *)

\* C16: after remove(id), with fastupdate on or off, contains(id) is false
C16_RemovedIsNotContained ==
    last.op = "remove" => ~contains(Ix, last.id)

\* a registered document has just been removed while another stays registered
C16_RemovedRegistered ==
    /\ last.op = "remove"
    /\ last.had
    /\ DOMAIN reg # {}

-----------------------------------------------------------------------------
(* Adds with append = false only *)

\* "a a", "a b a", "ab", "aaa", "b": the encoder drops a repeated word, the
\* tokenizers "full" and "forward" hand partial terms to push_index, "aaa"
\* giving the same partial term more than once
ReplaceTexts ==
    { <<97, 32, 97>>, <<97, 32, 98, 32, 97>>, <<97, 98>>, <<97, 97, 97>>, <<98>> }

\* Index::add(id, content, false) and nothing else
ReplaceNext ==
    Add(DocIds, ReplaceTexts) /\ last'.op # "append"

SpecReplace == IndexInit /\ [][ReplaceNext]_vars

-----------------------------------------------------------------------------
(* Clearing *)

\* C18: after clear(), every posting list of the term index and of the
\* context index is empty and the Register is empty: contains(id) is false
\* for every id and every search returns nothing
C18_ClearEmptiesIndex ==
    last.op = "clear" =>
        /\ \A k \in DOMAIN map : map[k] = <<>>
        /\ \A k \in DOMAIN ctx : ctx[k] = <<>>
        /\ DOMAIN reg = {}
        /\ \A id \in DocIds \cup {0} : ~contains(Ix, id)
        /\ \A q \in Queries : \A o \in OptionsFor(q) : search(cfg, Ix, o) = <<>>

\* an index that held documents has just been cleared
C18_ClearedNonEmpty ==
    /\ last.op = "clear"
    /\ last.had

-----------------------------------------------------------------------------
(* The Document (document/mod.rs) with one field and no tags.  The field's  *)
(* Index is the Index of the model, built by Field::new with the default    *)
(* options and fastupdate off.  doc is [reg, store]: the Document's own     *)
(* Register (the set of its ids, in either of its forms) and its store,     *)
(* <<>> for None and <<id -> content>> for Some.  A content is <<>> when    *)
(* the document has no value for the field and <<text>> when it has.        *)

\* Field::add: index.add(id, value, false) when the value can be extracted
Field_add(c, ix, id, content) ==
    IF content # <<>> THEN add_document(c, ix, id, content[1], FALSE) ELSE ix

\* Document::add: the fields, then the Register, then the store.  Yields
\* the Document's fields [reg, store] and the field's index.
Document_add(c, d, ix, id, content) ==
    [ix |-> Field_add(c, ix, id, content),
     doc |-> [reg |-> d.reg \cup {id},
              store |-> IF d.store = <<>> THEN <<>>
                        ELSE <<MapSet(d.store[1], id, content)>>]]

\* Document::remove
Document_remove(c, d, ix, id) ==
    [ix |-> remove_document(c, ix, id, FALSE),
     doc |-> [reg |-> d.reg \ {id},
              store |-> IF d.store = <<>> THEN <<>>
                        ELSE <<MapDel(d.store[1], {id})>>]]

\* Document::update = remove then add
Document_update(c, d, ix, id, content) ==
    LET r == Document_remove(c, d, ix, id) IN
    Document_add(c, r.doc, r.ix, id, content)

\* Document::clear
Document_clear(d, ix) ==
    [ix |-> clear(ix),
     doc |-> [reg |-> {}, store |-> IF d.store = <<>> THEN <<>> ELSE <<EmptyMap>>]]

\* no value for the field, "", "a b"
DocContents == { <<>>, << <<>> >>, << <<97, 32, 98>> >> }

\* "", "a b"
DocTexts == { <<>>, <<97, 32, 98>> }

\* the record of a Document operation: same tells whether the operation
\* left the Document and its field index as they were
DocCalled(op, id, content, out) ==
    [op |-> op, id |-> id, text |-> content, same |-> (out.ix = Ix /\ out.doc = doc)]

DocumentInit ==
    /\ NewIndex({Config(FALSE, "strict", 0, FALSE, FALSE)})
    /\ sc = <<>>
    /\ computed = <<>>
    /\ now = 0
    /\ enc = <<>>
    /\ aix = <<>>
    /\ tgt = <<>>
    /\ bc = <<>>
    /\ doc \in {[reg |-> {}, store |-> <<>>], [reg |-> {}, store |-> <<EmptyMap>>]}

DocumentAdd ==
    \E id \in DocIds \cup {0}, content \in DocContents :
        LET out == Document_add(cfg, doc, Ix, id, content) IN
        /\ SetIx(out.ix)
        /\ doc' = out.doc
        /\ last' = DocCalled("doc_add", id, content, out)
        /\ UNCHANGED <<cfg, enc, notIndex>>

DocumentUpdate ==
    \E id \in DocIds \cup {0}, content \in DocContents :
        LET out == Document_update(cfg, doc, Ix, id, content) IN
        /\ SetIx(out.ix)
        /\ doc' = out.doc
        /\ last' = DocCalled("doc_update", id, content, out)
        /\ UNCHANGED <<cfg, enc, notIndex>>

DocumentRemove ==
    \E id \in DocIds \cup {0} :
        LET out == Document_remove(cfg, doc, Ix, id) IN
        /\ SetIx(out.ix)
        /\ doc' = out.doc
        /\ last' = DocCalled("doc_remove", id, <<>>, out)
        /\ UNCHANGED <<cfg, enc, notIndex>>

DocumentClear ==
    LET out == Document_clear(doc, Ix) IN
    /\ SetIx(out.ix)
    /\ doc' = out.doc
    /\ last' = DocCalled("doc_clear", 0, <<>>, out)
    /\ UNCHANGED <<cfg, enc, notIndex>>

\* the operations of the Document, and those of the Index on the field's
\* index (Field::index_mut)
DocumentNext ==
    \/ DocumentAdd
    \/ DocumentUpdate
    \/ DocumentRemove
    \/ DocumentClear
    \/ Add(DocIds \cup {0}, DocTexts)
    \/ Update(DocIds \cup {0}, DocTexts)
    \/ Remove(DocIds \cup {0})

SpecDocument == DocumentInit /\ [][DocumentNext]_vars

\* C19: DocId 0 is never in a Register, of the Index or of the Document, and
\* never in a posting list; a Document add with id 0 or with empty text
\* leaves everything as it was
C19_ZeroAndEmptyRejected ==
    /\ ~contains(Ix, 0)
    /\ 0 \notin doc.reg
    /\ \A k \in DOMAIN map : ~Contains(map[k], 0)
    /\ \A k \in DOMAIN ctx : ~Contains(ctx[k], 0)
    /\ (last.op = "doc_add" /\ (last.id = 0 \/ last.text = << <<>> >>)) => last.same

\* a Document add with id 0 and a text has been done
C19_AddedZero ==
    /\ last.op = "doc_add"
    /\ last.id = 0
    /\ last.text = << <<97, 32, 98>> >>

-----------------------------------------------------------------------------
(* The intersect functions: intersect of intersect/mod.rs (above), and      *)
(* intersect and intersect_simple of intersect/core.rs.                     *)

\* bound: the arrays handed to an intersect
MaxArrays == 3

\* bound: the ids of one array
MaxArrayLen == 2

\* result.sort_unstable(): the ids of S in ascending order
RECURSIVE Sorted(_)
Sorted(S) ==
    IF S = {} THEN <<>>
    ELSE LET m == CHOOSE x \in S : \A y \in S : x <= y IN <<m>> \o Sorted(S \ {m})

\* the ids of all the arrays
IdsOf(arrays) == UNION {SeqToSet(arrays[i]) : i \in DOMAIN arrays}

\* common_ids[id]: the per-array counts "seen" of the id, summed over the arrays
RECURSIVE common_ids(_, _)
common_ids(arrays, id) ==
    IF arrays = <<>> THEN 0
    ELSE Count(Head(arrays), id) + common_ids(Tail(arrays), id)

\* the ids whose count reaches the threshold arrays.len(), sorted
CommonResult(arrays) ==
    Sorted({id \in IdsOf(arrays) : common_ids(arrays, id) >= Len(arrays)})

\* intersect/core.rs intersect: the result is a list of arrays
core_intersect(arrays) ==
    IF arrays = <<>> THEN <<>>
    ELSE IF Len(arrays) = 1 THEN arrays
    ELSE <<CommonResult(arrays)>>

\* intersect/core.rs intersect_simple
intersect_simple(arrays) ==
    IF arrays = <<>> THEN <<>>
    ELSE IF Len(arrays) = 1 THEN arrays[1]
    ELSE CommonResult(arrays)

IdArrays == UNION {[1..n -> DocIds] : n \in 0..MaxArrayLen}

ArrayLists == UNION {[1..n -> IdArrays] : n \in 1..MaxArrays}

\* the record of a call: the arrays given and the ids returned; the
\* functions keep no state, and a run is one call
Intersected(op, arrays, ids) ==
    [op |-> op, id |-> 0, text |-> <<>>, arrays |-> arrays, ids |-> ids]

IntersectInit ==
    /\ NewIndex({Config(FALSE, "strict", 0, FALSE, FALSE)})
    /\ NoSearchCache

\* intersect(arrays, resolution, limit, 0, false, 0, true) of intersect/mod.rs,
\* with the default resolution and no limit or the search's default limit
Intersect ==
    \E arrays \in ArrayLists, limit \in {0, 100} :
        /\ last.op = "new"
        /\ last' = Intersected("intersect", arrays,
                               SeqToSet(intersect(arrays, DefaultResolution, limit, 0,
                                                  FALSE, 0, TRUE)))
        /\ UNCHANGED <<cfg, enc, doc, map, ctx, reg, notIndex>>

\* intersect of intersect/core.rs
CoreIntersect ==
    \E arrays \in ArrayLists :
        /\ last.op = "new"
        /\ last' = Intersected("core_intersect", arrays, IdsOf(core_intersect(arrays)))
        /\ UNCHANGED <<cfg, enc, doc, map, ctx, reg, notIndex>>

\* intersect_simple of intersect/core.rs
IntersectSimple ==
    \E arrays \in ArrayLists :
        /\ last.op = "new"
        /\ last' = Intersected("intersect_simple", arrays,
                               SeqToSet(intersect_simple(arrays)))
        /\ UNCHANGED <<cfg, enc, doc, map, ctx, reg, notIndex>>

IntersectNext ==
    \/ Intersect
    \/ CoreIntersect
    \/ IntersectSimple

SpecIntersect == IntersectInit /\ [][IntersectNext]_vars

\* the ids that are in every one of the arrays
InEveryArray(arrays) ==
    {id \in IdsOf(arrays) : \A i \in DOMAIN arrays : Contains(arrays[i], id)}

\* C20: an intersect returns a DocId if and only if the DocId is in every
\* one of its input arrays, however often it occurs within one of them
C20_IntersectIsInEveryArray ==
    last.op \in {"intersect", "core_intersect", "intersect_simple"} =>
        last.ids = InEveryArray(last.arrays)

\* an intersect of two arrays, one of which holds a DocId twice
C20_RepeatedIdIntersected ==
    /\ last.op \in {"intersect", "core_intersect", "intersect_simple"}
    /\ Len(last.arrays) = 2
    /\ \E i \in DOMAIN last.arrays : \E id \in DocIds : Count(last.arrays[i], id) = 2

-----------------------------------------------------------------------------
(* The other set operations: union (intersect/mod.rs above, intersect/core.rs, *)
(* resolver/or.rs), intersect_union, xor, exclusion and the resolve step.   *)
(* Each is a function without state: a run is one call, and last records    *)
(* the call as [op, input, ids] with further fields where a claim needs     *)
(* them.                                                                    *)

\* the ids of v, each at its first occurrence
RECURSIVE FirstOccurrences(_, _)
FirstOccurrences(v, seen) ==
    IF v = <<>> THEN <<>>
    ELSE IF Head(v) \in seen THEN FirstOccurrences(Tail(v), seen)
    ELSE <<Head(v)>> \o FirstOccurrences(Tail(v), seen \cup {Head(v)})

\* intersect/core.rs union: the result is a list of arrays
core_union(arrays) ==
    IF arrays = <<>> THEN <<>>
    ELSE IF Len(arrays) = 1 THEN arrays
    ELSE <<Sorted(IdsOf(arrays))>>

\* the loop of union_op over the operands; st is [seen, unique_result, has_overlap]
RECURSIVE UnionOpLoop(_, _)
UnionOpLoop(arrays, st) ==
    IF arrays = <<>> THEN st
    ELSE LET ids == Flatten(Head(arrays))
             unique_array == FirstOccurrences(ids, st.seen)
         IN UnionOpLoop(Tail(arrays),
                [seen |-> st.seen \cup SeqToSet(ids),
                 unique_result |-> IF unique_array # <<>>
                                   THEN Append(st.unique_result, unique_array)
                                   ELSE st.unique_result,
                 has_overlap |-> st.has_overlap \/ Len(unique_array) < Len(ids)])

\* resolver/or.rs union_op: arrays is a list of intermediate results
union_op(arrays) ==
    IF arrays = <<>> THEN <<>>
    ELSE IF Len(arrays) = 1 THEN arrays[1]
    ELSE LET st == UnionOpLoop(arrays, [seen |-> {}, unique_result |-> <<>>,
                                        has_overlap |-> FALSE])
         IN IF st.has_overlap THEN <<Sorted(st.seen)>> ELSE st.unique_result

\* bound: the arrays of one intermediate result handed to union_op
MaxSubArrays == 2

\* intermediate results: lists of up to MaxSubArrays arrays
Intermediates == UNION {[1..n -> IdArrays] : n \in 1..MaxSubArrays}

\* the record of a call
Called(op, input, ids) == [op |-> op, id |-> 0, text |-> <<>>, input |-> input, ids |-> ids]

\* union(arrays, 0, 0, _, _) of intersect/mod.rs
Union ==
    \E arrays \in ArrayLists :
        /\ last.op = "new"
        /\ last' = Called("union", Flatten(arrays), union(arrays, 0, 0))
        /\ UNCHANGED <<cfg, enc, doc, map, ctx, reg, notIndex>>

\* union of intersect/core.rs
CoreUnion ==
    \E arrays \in ArrayLists :
        /\ last.op = "new"
        /\ last' = Called("core_union", Flatten(arrays), Flatten(core_union(arrays)))
        /\ UNCHANGED <<cfg, enc, doc, map, ctx, reg, notIndex>>

\* union_op of resolver/or.rs
UnionOp ==
    \E arrays \in UNION {[1..n -> Intermediates] : n \in 1..2} :
        /\ last.op = "new"
        /\ last' = Called("union_op", Flatten(Flatten(arrays)), Flatten(union_op(arrays)))
        /\ UNCHANGED <<cfg, enc, doc, map, ctx, reg, notIndex>>

UnionOps == {"union", "core_union", "union_op"}

\* C21: a union returns every DocId of its inputs exactly once, in the order
\* of the first occurrences when the inputs are read in input order
C21_UnionInInputOrder ==
    last.op \in UnionOps => last.ids = FirstOccurrences(last.input, {})

\* a union of inputs that hold two different DocIds, one of them twice
C21_UnionOfOverlapping ==
    /\ last.op \in UnionOps
    /\ Cardinality(SeqToSet(last.input)) = 2
    /\ Len(last.input) = 3

\* intersect_union of intersect/mod.rs: arrays is one array of ids; check
\* holds the mandatory ids not yet returned
RECURSIVE IntersectUnionWalk(_, _)
IntersectUnionWalk(arrays, check) ==
    IF arrays = <<>> THEN <<>>
    ELSE IF Head(arrays) \in check
    THEN <<Head(arrays)>> \o IntersectUnionWalk(Tail(arrays), check \ {Head(arrays)})
    ELSE IntersectUnionWalk(Tail(arrays), check)

intersect_union(arrays, mandatory) == IntersectUnionWalk(arrays, IdsOf(mandatory))

\* intersect_union of intersect/core.rs: "intersection" is arrays[0] whatever
\* the number of arrays; sort_unstable and dedup give the sorted id set
core_intersect_union(arrays, mandatory) ==
    LET intersection == IF arrays = <<>> THEN <<>> ELSE arrays[1]
    IN Sorted(SeqToSet(intersection) \cup IdsOf(mandatory))

\* intersect_union(arrays, mandatory, _) of intersect/mod.rs
IntersectUnion ==
    \E arrays \in IdArrays, mandatory \in Intermediates :
        /\ last.op = "new"
        /\ last' = Called("intersect_union",
                          [primary |-> <<arrays>>, mandatory |-> mandatory],
                          intersect_union(arrays, mandatory))
        /\ UNCHANGED <<cfg, enc, doc, map, ctx, reg, notIndex>>

\* intersect_union(arrays, mandatory, _) of intersect/core.rs
CoreIntersectUnion ==
    \E arrays \in Intermediates, mandatory \in Intermediates :
        /\ last.op = "new"
        /\ last' = Called("core_intersect_union",
                          [primary |-> arrays, mandatory |-> mandatory],
                          core_intersect_union(arrays, mandatory))
        /\ UNCHANGED <<cfg, enc, doc, map, ctx, reg, notIndex>>

IntersectUnionOps == {"intersect_union", "core_intersect_union"}

\* C22: intersect_union returns exactly the DocIds that are in every primary
\* input or in at least one mandatory array
C22_IntersectionOrMandatory ==
    last.op \in IntersectUnionOps =>
        SeqToSet(last.ids) = InEveryArray(last.input.primary) \cup IdsOf(last.input.mandatory)

\* an intersect_union with a primary DocId that is neither in every primary
\* input nor mandatory, and a mandatory DocId that is in no primary input
C22_PrimaryAndMandatoryDiffer ==
    /\ last.op \in IntersectUnionOps
    /\ IdsOf(last.input.mandatory) \ IdsOf(last.input.primary) # {}
    /\ IdsOf(last.input.primary) \ IdsOf(last.input.mandatory) # {}

\* counts[id] of xor: the occurrences of id in all the arrays of all operands
XorCount(arrays, id) == Count(Flatten(Flatten(arrays)), id)

\* the ids of v whose count is 1
XorKeep(v, arrays) == SelectSeq(v, LAMBDA id : XorCount(arrays, id) = 1)

\* resolver/xor.rs xor_op: one array per operand that has an id left
RECURSIVE XorArrays(_, _)
XorArrays(rest, arrays) ==
    IF rest = <<>> THEN <<>>
    ELSE LET xor_array == XorKeep(Flatten(Head(rest)), arrays) IN
         (IF xor_array # <<>> THEN <<xor_array>> ELSE <<>>) \o XorArrays(Tail(rest), arrays)

xor_op(arrays) ==
    IF arrays = <<>> THEN <<>>
    ELSE IF Len(arrays) = 1 THEN arrays[1]
    ELSE XorArrays(arrays, arrays)

\* Resolver::xor of resolver/resolver.rs: result is self.result before the
\* call, the value is self.result after it
Resolver_xor(result, other) ==
    IF result # <<>> /\ other # <<>>
    THEN LET both == <<result, other>>
             mine == XorKeep(Flatten(result), both)
         IN <<mine \o FirstOccurrences(XorKeep(Flatten(other), both), SeqToSet(mine))>>
    ELSE IF result # <<>> THEN result
    ELSE other

\* Resolver::xor of resolver/mod.rs: crate::intersect::union(&other, 100, 0, ..)
ResolverMod_xor(result, other) ==
    IF result # <<>> /\ other # <<>> THEN <<union(other, 100, 0)>>
    ELSE IF result = <<>> THEN other
    ELSE result

\* the operands of an operator: no array at all, or an intermediate result
Operands == {<<>>} \cup Intermediates

\* xor_op(arrays, boost)
XorOp ==
    \E arrays \in UNION {[1..n -> Intermediates] : n \in 1..2} :
        /\ last.op = "new"
        /\ last' = Called("xor_op", arrays, Flatten(xor_op(arrays)))
        /\ UNCHANGED <<cfg, enc, doc, map, ctx, reg, notIndex>>

\* Resolver::new(result, None).xor(other), resolver/resolver.rs
ResolverXor ==
    \E result \in Operands, other \in Operands :
        /\ last.op = "new"
        /\ last' = Called("Resolver_xor", <<result, other>>,
                          Flatten(Resolver_xor(result, other)))
        /\ UNCHANGED <<cfg, enc, doc, map, ctx, reg, notIndex>>

\* Resolver::new(result, None).xor(other), resolver/mod.rs
ResolverModXor ==
    \E result \in Operands, other \in Operands :
        /\ last.op = "new"
        /\ last' = Called("ResolverMod_xor", <<result, other>>,
                          Flatten(ResolverMod_xor(result, other)))
        /\ UNCHANGED <<cfg, enc, doc, map, ctx, reg, notIndex>>

XorOps == {"xor_op", "Resolver_xor", "ResolverMod_xor"}

\* the ids that are in exactly one of the operands
InExactlyOne(arrays) ==
    {id \in DocIds : Cardinality({i \in DOMAIN arrays : id \in IdsOf(arrays[i])}) = 1}

\* C23: xor returns exactly the DocIds that are in exactly one of its
\* inputs; xor of an input with itself is empty
C23_XorIsInExactlyOne ==
    last.op \in XorOps => SeqToSet(last.ids) = InExactlyOne(last.input)

\* xor of a non-empty input with itself
C23_XorWithItself ==
    /\ last.op \in XorOps
    /\ Len(last.input) = 2
    /\ last.input[1] = last.input[2]
    /\ IdsOf(last.input[1]) # {}

(***************************************************************************)
(* Difference (resolver/not.rs, resolver/handler.rs, resolver/resolver.rs) *)
(***************************************************************************)

MaxLimit == 2

Limits == 0..MaxLimit

\* the inner loop of exclusion over one sub-array: the ids not excluded are
\* pushed while count < limit; room is limit - count on entry
Filtered(ids, exclude, room) ==
    LET kept == SelectSeq(ids, LAMBDA id : id \notin exclude)
    IN SubSeq(kept, 1, Min(room, Len(kept)))

RECURSIVE ExclusionFrom(_, _, _, _)
ExclusionFrom(arrays, exclude, limit, count) ==
    IF arrays = <<>> THEN <<>>
    ELSE LET filtered == Filtered(Head(arrays), exclude, limit - count)
         IN (IF filtered # <<>> THEN <<filtered>> ELSE <<>>)
            \o ExclusionFrom(Tail(arrays), exclude, limit, count + Len(filtered))

exclusion(arrays, exclude, limit) ==
    ExclusionFrom(arrays, SeqToSet(exclude), limit, 0)

\* Handler::handle_not: the resolver's result after the call
handle_not(result, other_results, limit) ==
    IF other_results = <<>> \/ result = <<>> THEN result
    ELSE exclusion(result, Flatten(Flatten(other_results)), limit)

\* Resolver::not of resolver/resolver.rs: no limit
Resolver_not(result, other) ==
    IF result # <<>>
    THEN LET check == SeqToSet(Flatten(other))
         IN <<SelectSeq(Flatten(result), LAMBDA id : id \notin check)>>
    ELSE result

NotCalled(op, ids, exclude, limit, out) ==
    Called(op, [ids |-> ids, exclude |-> exclude, limit |-> limit], Flatten(out))

\* a direct call of exclusion passes the number of ids wanted
Exclusion ==
    /\ last.op = "new"
    /\ \E arrays \in Intermediates, exclude \in IdArrays, limit \in 1..MaxLimit :
         last' = NotCalled("exclusion", Flatten(arrays), SeqToSet(exclude), limit,
                           exclusion(arrays, exclude, limit))
    /\ UNCHANGED <<cfg, enc, doc, map, ctx, reg, notIndex>>

\* the limit of an operator chain is options.limit().unwrap_or(0)
HandleNot ==
    /\ last.op = "new"
    /\ \E result \in Operands, other \in Operands, limit \in Limits :
         last' = NotCalled("handle_not", Flatten(result), SeqToSet(Flatten(other)), limit,
                           handle_not(result, <<other>>, limit))
    /\ UNCHANGED <<cfg, enc, doc, map, ctx, reg, notIndex>>

ResolverNot ==
    /\ last.op = "new"
    /\ \E result \in Operands, other \in Operands :
         last' = NotCalled("Resolver_not", Flatten(result), SeqToSet(Flatten(other)), 0,
                           Resolver_not(result, other))
    /\ UNCHANGED <<cfg, enc, doc, map, ctx, reg, notIndex>>

NotOps == {"exclusion", "handle_not", "Resolver_not"}

\* the ids of the input that are not excluded, in input order, at most limit
\* of them when a limit is given
Difference(ids, exclude, limit) ==
    LET kept == SelectSeq(ids, LAMBDA id : id \notin exclude)
    IN IF limit = 0 THEN kept ELSE SubSeq(kept, 1, Min(limit, Len(kept)))

\* C24: difference returns, in input order, the ids of the input that are
\* not in the exclude set, stopping once limit ids are produced; without a
\* limit (limit 0 in an operator chain) it returns all of them
C24_DifferenceInInputOrder ==
    last.op \in NotOps =>
        last.ids = Difference(last.input.ids, last.input.exclude, last.input.limit)

\* a difference without a limit that leaves an id
C24_NoLimitAndSomeNotExcluded ==
    /\ last.op \in NotOps
    /\ last.input.limit = 0
    /\ last.input.exclude # {}
    /\ SeqToSet(last.input.ids) \ last.input.exclude # {}


SetOpsNext ==
    \/ Union
    \/ CoreUnion
    \/ UnionOp
    \/ IntersectUnion
    \/ CoreIntersectUnion
    \/ XorOp
    \/ ResolverXor
    \/ ResolverModXor
    \/ Exclusion
    \/ HandleNot
    \/ ResolverNot

SpecSetOps == IntersectInit /\ [][SetOpsNext]_vars

(***************************************************************************)
(* The resolve step (search/mod.rs resolve_default, resolver/resolver.rs)  *)
(***************************************************************************)

MaxOffset == 3

Offsets == 0..MaxOffset

\* Resolver::offset of resolver/resolver.rs: current_offset keeps its value
\* after a sub-array has been cut
RECURSIVE OffsetFrom(_, _)
OffsetFrom(result, current_offset) ==
    IF result = <<>> THEN <<>>
    ELSE LET ids == Head(result) IN
         IF ids = <<>> THEN OffsetFrom(Tail(result), current_offset)
         ELSE IF Len(ids) <= current_offset
         THEN OffsetFrom(Tail(result), current_offset - Len(ids))
         ELSE <<SubSeq(ids, current_offset + 1, Len(ids))>>
              \o OffsetFrom(Tail(result), current_offset)

Resolver_offset(result, offset) ==
    IF result # <<>> /\ offset > 0 THEN OffsetFrom(result, offset) ELSE result

\* skip(offset).take(limit)
SkipTake(v, offset, limit) == SubSeq(v, offset + 1, Min(offset + limit, Len(v)))

\* the loop of resolve_default of resolver/resolver.rs over several sub-arrays
RECURSIVE ResolverResolveFrom(_, _, _, _)
ResolverResolveFrom(result, final_result, current_limit, current_offset) ==
    IF result = <<>> THEN final_result
    ELSE LET arr == Head(result) IN
         IF arr = <<>>
         THEN ResolverResolveFrom(Tail(result), final_result, current_limit, current_offset)
         ELSE IF current_offset > 0 /\ current_offset >= Len(arr)
         THEN ResolverResolveFrom(Tail(result), final_result, current_limit,
                                  current_offset - Len(arr))
         ELSE LET cut == SubSeq(arr, current_offset + 1, Len(arr))
                  processed_arr == SubSeq(cut, 1, Min(current_limit, Len(cut)))
              IN IF final_result = <<>> /\ Len(processed_arr) >= current_limit
                 THEN processed_arr
                 ELSE IF current_limit - Len(processed_arr) = 0
                 THEN final_result \o processed_arr
                 ELSE ResolverResolveFrom(Tail(result), final_result \o processed_arr,
                                          current_limit - Len(processed_arr), 0)

Resolver_resolve_default(result, limit, offset) ==
    IF result = <<>> THEN <<>>
    ELSE IF Len(result) = 1
    THEN (IF offset > 0 \/ Len(result[1]) > limit
          THEN SkipTake(result[1], offset, limit) ELSE result[1])
    ELSE ResolverResolveFrom(result, <<>>, limit, offset)

Resolved(op, arrays, limit, offset, ids) ==
    Called(op, [arrays |-> arrays, limit |-> limit, offset |-> offset], ids)

ResolveDefault ==
    /\ last.op = "new"
    /\ \E arr \in Operands, limit \in Limits, offset \in Offsets :
         last' = Resolved("resolve_default", arr, limit, offset,
                          resolve_default(arr, limit, offset))
    /\ UNCHANGED <<cfg, enc, doc, map, ctx, reg, notIndex>>

ResolverResolveDefault ==
    /\ last.op = "new"
    /\ \E result \in Operands, limit \in Limits, offset \in Offsets :
         last' = Resolved("Resolver_resolve_default", result, limit, offset,
                          Resolver_resolve_default(result, limit, offset))
    /\ UNCHANGED <<cfg, enc, doc, map, ctx, reg, notIndex>>

\* Resolver::offset takes no limit: everything from the offset on remains
ResolverOffset ==
    /\ last.op = "new"
    /\ \E result \in Operands, offset \in Offsets :
         last' = Resolved("Resolver_offset", result, 2 * MaxSubArrays * MaxArrayLen, offset,
                          Flatten(Resolver_offset(result, offset)))
    /\ UNCHANGED <<cfg, enc, doc, map, ctx, reg, notIndex>>

ResolveOps == {"resolve_default", "Resolver_resolve_default", "Resolver_offset"}

ResolveNext ==
    \/ ResolveDefault
    \/ ResolverResolveDefault
    \/ ResolverOffset

SpecResolve == IntersectInit /\ [][ResolveNext]_vars

\* C25: resolving returns exactly the elements at positions offset to
\* offset+limit-1 of the concatenation of the sub-arrays
C25_ResolveIsSliceOfConcatenation ==
    last.op \in ResolveOps =>
        last.ids = SkipTake(Flatten(last.input.arrays), last.input.offset, last.input.limit)

\* the offset falls inside a sub-array that is followed by a non-empty one
C25_OffsetInsideFirstSubArray ==
    /\ last.op \in ResolveOps
    /\ Len(last.input.arrays) = 2
    /\ last.input.offset > 0
    /\ last.input.offset < Len(last.input.arrays[1])
    /\ last.input.arrays[2] # <<>>
    /\ last.input.limit > 1


(***************************************************************************)
(* The Encoder with transformations and its caches (encoder/mod.rs)        *)
(***************************************************************************)

\* Encoder::new with default options: no filter, mapper, matcher, stemmer or
\* replacer; dedupe; both caches empty. An Option is <<>> or <<value>>.
Encoder_new ==
    [filter |-> <<>>, mapper |-> <<>>, matcher |-> <<>>, stemmer |-> <<>>,
     replacer |-> <<>>, cache_enc |-> EmptyMap, cache_term |-> EmptyMap]

has_transformations(e) ==
    \/ e.filter # <<>>
    \/ e.mapper # <<>>
    \/ e.matcher # <<>>
    \/ e.stemmer # <<>>
    \/ e.replacer # <<>>

EndsWith(word, key) ==
    /\ Len(key) <= Len(word)
    /\ SubSeq(word, Len(word) - Len(key) + 1, Len(word)) = key

\* apply_stemmer: while the word changes and is longer than 2, the first key
\* of the map that is a proper suffix is replaced
RECURSIVE apply_stemmer(_, _)
apply_stemmer(word, stemmer) ==
    LET keys == {k \in DOMAIN stemmer : Len(word) > Len(k) /\ EndsWith(word, k)}
    IN IF Len(word) <= 2 \/ keys = {} THEN word
       ELSE LET key == CHOOSE k \in keys : TRUE
                next == SubSeq(word, 1, Len(word) - Len(key)) \o stemmer[key]
            IN IF next = word THEN word ELSE apply_stemmer(next, stemmer)

\* apply_mapper with dedupe: a char equal to the previous kept one is dropped
RECURSIVE MapChars(_, _, _, _)
MapChars(word, mapper, result, prev) ==
    IF word = <<>> THEN result
    ELSE LET char == Head(word) IN
         IF <<char>> = prev THEN MapChars(Tail(word), mapper, result, prev)
         ELSE IF mapper # <<>> /\ char \in DOMAIN mapper[1]
         THEN LET mapped == mapper[1][char] IN
              IF <<mapped>> # prev
              THEN MapChars(Tail(word), mapper, Append(result, mapped), <<mapped>>)
              ELSE MapChars(Tail(word), mapper, result, prev)
         ELSE MapChars(Tail(word), mapper, Append(result, char), <<char>>)

apply_mapper(e, word) == MapChars(word, e.mapper, <<>>, <<>>)

\* str::replace(key, value)
RECURSIVE Replace(_, _, _)
Replace(s, key, value) ==
    IF s = <<>> THEN <<>>
    ELSE IF key # <<>> /\ Len(key) <= Len(s) /\ SubSeq(s, 1, Len(key)) = key
    THEN value \o Replace(SubSeq(s, Len(key) + 1, Len(s)), key, value)
    ELSE <<Head(s)>> \o Replace(Tail(s), key, value)

RECURSIVE ReplaceEach(_, _, _)
ReplaceEach(word, pairs, keys) ==
    IF keys = {} THEN word
    ELSE LET key == CHOOSE k \in keys : TRUE
         IN ReplaceEach(Replace(word, key, pairs[key]), pairs, keys \ {key})

apply_matcher(word, matcher) == ReplaceEach(word, matcher, DOMAIN matcher)

\* apply_replacer with regexes that are literal patterns
RECURSIVE apply_replacer(_, _)
apply_replacer(word, replacer) ==
    IF replacer = <<>> THEN word
    ELSE apply_replacer(Replace(word, Head(replacer)[1], Head(replacer)[2]),
                        Tail(replacer))

\* the transformations of one word after the term cache missed
Transform(e, word0) ==
    LET word1 == IF e.stemmer # <<>> THEN apply_stemmer(word0, e.stemmer[1]) ELSE word0
        word2 == IF e.mapper # <<>> \/ Len(word1) > 1 THEN apply_mapper(e, word1) ELSE word1
        word3 == IF e.matcher # <<>> THEN apply_matcher(word2, e.matcher[1]) ELSE word2
    IN IF e.replacer # <<>> THEN apply_replacer(word3, e.replacer[1]) ELSE word3

\* the word loop of Encoder::encode; cache is FALSE for an Encoder whose
\* cache field is None; st is [final_terms, dupes, cache_term, hit]
RECURSIVE EncodeLoop(_, _, _, _)
EncodeLoop(e, words, cache, st) ==
    IF words = <<>> THEN st
    ELSE LET base == Head(words)
             rest == Tail(words)
             st1 == [st EXCEPT !.dupes = @ \cup {base}]
         IN
         IF base = <<>> \/ Len(base) < 1 \/ Len(base) > 1024 \/ base \in st.dupes
         THEN EncodeLoop(e, rest, cache, st)
         ELSE IF ~has_transformations(e)
         THEN EncodeLoop(e, rest, cache, [st1 EXCEPT !.final_terms = Append(@, base)])
         ELSE IF e.filter # <<>> /\ base \in e.filter[1]
         THEN EncodeLoop(e, rest, cache, st1)
         ELSE IF cache /\ base \in DOMAIN st.cache_term
         THEN LET tmp == st.cache_term[base]
              IN EncodeLoop(e, rest, cache,
                     [st1 EXCEPT !.final_terms = IF tmp # <<>> THEN Append(@, tmp) ELSE @,
                                 !.hit = TRUE])
         ELSE LET word == Transform(e, base)
                  st2 == IF cache
                         THEN [st1 EXCEPT !.cache_term = MapSet(@, base, word)]
                         ELSE st1
              IN IF word = <<>> \/ (word # base /\ word \in st2.dupes)
                 THEN EncodeLoop(e, rest, cache, st2)
                 ELSE EncodeLoop(e, rest, cache,
                          [st2 EXCEPT !.final_terms = Append(@, word),
                                      !.dupes = @ \cup {word}])

\* Encoder::encode: [terms, enc, cached]; the whole-input cache is looked up
\* under the input and written under the normalized input
Encoder_encode(e, str, cache) ==
    IF cache /\ str \in DOMAIN e.cache_enc
    THEN [terms |-> e.cache_enc[str], enc |-> e, cached |-> "enc"]
    ELSE LET s == apply_normalize(str)
             st == EncodeLoop(e, apply_split(s), cache,
                              [final_terms |-> <<>>, dupes |-> {},
                               cache_term |-> e.cache_term, hit |-> FALSE])
         IN [terms |-> st.final_terms,
             enc |-> IF cache
                     THEN [e EXCEPT !.cache_term = st.cache_term,
                                    !.cache_enc = MapSet(@, s, st.final_terms)]
                     ELSE e,
             cached |-> IF st.hit THEN "term" ELSE "none"]

ClearCaches(e) == [e EXCEPT !.cache_enc = EmptyMap, !.cache_term = EmptyMap]

OptInsert(opt, k, v) == <<MapSet(IF opt = <<>> THEN EmptyMap ELSE opt[1], k, v)>>

add_stemmer(e, match_str, replace) ==
    ClearCaches([e EXCEPT !.stemmer = OptInsert(@, match_str, replace)])

add_filter(e, term) ==
    ClearCaches([e EXCEPT !.filter = <<(IF @ = <<>> THEN {} ELSE @[1]) \cup {term}>>])

add_mapper(e, char_match, char_replace) ==
    ClearCaches([e EXCEPT !.mapper = OptInsert(@, char_match, char_replace)])

add_matcher(e, match_str, replace) ==
    ClearCaches([e EXCEPT !.matcher = OptInsert(@, match_str, replace)])

add_replacer(e, regex, replace) ==
    ClearCaches([e EXCEPT !.replacer =
                     <<Append(IF @ = <<>> THEN <<>> ELSE @[1], <<regex, replace>>)>>])

\* "a b", "b a", "A b", "aab b", "c"
EncTexts == {<<97, 32, 98>>, <<98, 32, 97>>, <<65, 32, 98>>,
             <<97, 97, 98, 32, 98>>, <<99>>}

EncoderInit ==
    /\ NewIndex({Config(FALSE, "strict", 0, FALSE, FALSE)})
    /\ sc = <<>>
    /\ computed = <<>>
    /\ now = 0
    /\ aix = <<>>
    /\ tgt = <<>>
    /\ bc = <<>>
    /\ doc = <<>>
    /\ enc = Encoder_new

Added(op) == [op |-> op, id |-> 0, text |-> <<>>]

EncoderEncode ==
    \E str \in EncTexts :
        LET out == Encoder_encode(enc, str, TRUE)
        IN /\ enc' = out.enc
           /\ last' = [op |-> "encode", id |-> 0, text |-> str, terms |-> out.terms,
                       cached |-> out.cached,
                       uncached |-> Encoder_encode(enc, str, FALSE).terms]
           /\ UNCHANGED <<cfg, doc, map, ctx, reg, sc, computed, now, aix, tgt, bc>>

\* stemmer "b" -> "", filter "c", mapper b -> a, matcher "b" -> "a";
\* a replacer "b" -> "a" is added while there is none
AddStemmer ==
    /\ enc' = add_stemmer(enc, <<98>>, <<>>)
    /\ last' = Added("add_stemmer")
    /\ UNCHANGED <<cfg, doc, map, ctx, reg, sc, computed, now, aix, tgt, bc>>

AddFilter ==
    /\ enc' = add_filter(enc, <<99>>)
    /\ last' = Added("add_filter")
    /\ UNCHANGED <<cfg, doc, map, ctx, reg, sc, computed, now, aix, tgt, bc>>

AddMapper ==
    /\ enc' = add_mapper(enc, 98, 97)
    /\ last' = Added("add_mapper")
    /\ UNCHANGED <<cfg, doc, map, ctx, reg, sc, computed, now, aix, tgt, bc>>

AddMatcher ==
    /\ enc' = add_matcher(enc, <<98>>, <<97>>)
    /\ last' = Added("add_matcher")
    /\ UNCHANGED <<cfg, doc, map, ctx, reg, sc, computed, now, aix, tgt, bc>>

AddReplacer ==
    /\ enc.replacer = <<>>
    /\ enc' = add_replacer(enc, <<98>>, <<97>>)
    /\ last' = Added("add_replacer")
    /\ UNCHANGED <<cfg, doc, map, ctx, reg, sc, computed, now, aix, tgt, bc>>

EncoderNext ==
    \/ EncoderEncode
    \/ AddStemmer
    \/ AddFilter
    \/ AddMapper
    \/ AddMatcher
    \/ AddReplacer

SpecEncoder == EncoderInit /\ [][EncoderNext]_vars

\* C26: encode returns what the pipeline without caches produces under the
\* current configuration, whatever was encoded or added before
C26_CachesDoNotChangeResult ==
    last.op = "encode" => last.terms = last.uncached

\* an encode answered from the per-term cache while a transformation is set
C26_EncodedFromTermCache ==
    /\ last.op = "encode"
    /\ last.cached = "term"
    /\ has_transformations(enc)


(***************************************************************************)
(* The tag system of a Document (document/tag.rs, document/mod.rs).  The   *)
(* Document has no search field, no store and NumTagFields tag fields, so   *)
(* doc is [reg, store, tag_system]; tag_system is [filters, indexes,        *)
(* doc_tags].  A JSON value is [is_str, s]; a content gives each tag field  *)
(* <<>> (absent) or <<value>>.                                              *)
(***************************************************************************)

NumTagFields == 1

TagIdx == 1..NumTagFields

StrValue(s) == [is_str |-> TRUE, s |-> s]

\* a value that is not a string (as_str gives None)
OtherValue == [is_str |-> FALSE, s |-> <<>>]

\* "x", "y" and a number
TagValues == {StrValue(<<120>>), StrValue(<<121>>), OtherValue}

TagContents == [TagIdx -> {<<>>} \cup {<<v>> : v \in TagValues}]

\* the filters of the model: none, or one that accepts strings only
TagFilters == {"none", "is_string"}

TagSystem_new(filters) ==
    [filters |-> filters,
     indexes |-> [i \in TagIdx |-> EmptyMap],
     doc_tags |-> EmptyMap]

\* the loop of add_tags; st is [indexes, doc_tag_list]
RECURSIVE AddTagsLoop(_, _, _, _)
AddTagsLoop(filters, doc_id, tags, st) ==
    IF tags = <<>> THEN st
    ELSE LET idx == Head(tags)[1]
             value == Head(tags)[2]
         IN IF filters[idx] = "is_string" /\ ~value.is_str
            THEN AddTagsLoop(filters, doc_id, Tail(tags), st)
            ELSE LET tag_str == value.s
                     ids == Lookup(st.indexes[idx], tag_str)
                     ids2 == IF Contains(ids, doc_id) THEN ids ELSE Append(ids, doc_id)
                 IN AddTagsLoop(filters, doc_id, Tail(tags),
                        [indexes |-> [st.indexes EXCEPT ![idx] = MapSet(@, tag_str, ids2)],
                         doc_tag_list |-> Append(st.doc_tag_list, <<idx, tag_str>>)])

add_tags(ts, doc_id, tags) ==
    LET st == AddTagsLoop(ts.filters, doc_id, tags,
                          [indexes |-> ts.indexes, doc_tag_list |-> <<>>])
    IN [ts EXCEPT !.indexes = st.indexes,
                  !.doc_tags = IF st.doc_tag_list # <<>>
                               THEN MapSet(@, doc_id, st.doc_tag_list) ELSE @]

RECURSIVE RemoveTagsLoop(_, _, _)
RemoveTagsLoop(indexes, doc_id, tags) ==
    IF tags = <<>> THEN indexes
    ELSE LET idx == Head(tags)[1]
             tag == Head(tags)[2]
             index == indexes[idx]
         IN RemoveTagsLoop(
                IF tag \in DOMAIN index /\ Contains(index[tag], doc_id)
                THEN [indexes EXCEPT ![idx] =
                          MapSet(@, tag, SwapRemove(index[tag], Position(index[tag], doc_id)))]
                ELSE indexes,
                doc_id, Tail(tags))

remove_tags(ts, doc_id) ==
    IF doc_id \in DOMAIN ts.doc_tags
    THEN [ts EXCEPT !.doc_tags = MapDel(@, {doc_id}),
                    !.indexes = RemoveTagsLoop(@, doc_id, ts.doc_tags[doc_id])]
    ELSE ts

TagSystem_clear(ts) ==
    [ts EXCEPT !.indexes = [i \in TagIdx |-> EmptyMap], !.doc_tags = EmptyMap]

\* the tags Document::add extracts: the configured fields the content has
RECURSIVE ExtractTags(_, _)
ExtractTags(content, idx) ==
    IF idx > NumTagFields THEN <<>>
    ELSE (IF content[idx] # <<>> THEN << <<idx, content[idx][1]>> >> ELSE <<>>)
         \o ExtractTags(content, idx + 1)

TaggedDocument_add(d, id, content) ==
    [d EXCEPT !.tag_system = add_tags(@, id, ExtractTags(content, 1)),
              !.reg = @ \cup {id}]

TaggedDocument_remove(d, id) ==
    [d EXCEPT !.tag_system = remove_tags(@, id), !.reg = @ \ {id}]

TaggedDocument_update(d, id, content) ==
    TaggedDocument_add(TaggedDocument_remove(d, id), id, content)

TaggedDocument_clear(d) ==
    [d EXCEPT !.tag_system = TagSystem_clear(@), !.reg = {}]

TagsInit ==
    /\ NewIndex({Config(FALSE, "strict", 0, FALSE, FALSE)})
    /\ sc = <<>>
    /\ computed = <<>>
    /\ now = 0
    /\ aix = <<>>
    /\ tgt = <<>>
    /\ bc = <<>>
    /\ enc = <<>>
    /\ \E filters \in [TagIdx -> TagFilters] :
         doc = [reg |-> {}, store |-> <<>>, tag_system |-> TagSystem_new(filters)]

\* had: the reverse mapping recorded tags for id before the operation
TagCalled(op, id) ==
    [op |-> op, id |-> id, text |-> <<>>, had |-> id \in DOMAIN doc.tag_system.doc_tags]

TaggedAdd ==
    /\ \E id \in DocIds, content \in TagContents :
         /\ doc' = TaggedDocument_add(doc, id, content)
         /\ last' = TagCalled("doc_add", id)
    /\ UNCHANGED <<cfg, enc, map, ctx, reg, notIndex>>

TaggedUpdate ==
    /\ \E id \in DocIds, content \in TagContents :
         /\ doc' = TaggedDocument_update(doc, id, content)
         /\ last' = TagCalled("doc_update", id)
    /\ UNCHANGED <<cfg, enc, map, ctx, reg, notIndex>>

TaggedRemove ==
    /\ \E id \in DocIds :
         /\ doc' = TaggedDocument_remove(doc, id)
         /\ last' = TagCalled("doc_remove", id)
    /\ UNCHANGED <<cfg, enc, map, ctx, reg, notIndex>>

TaggedClear ==
    /\ doc' = TaggedDocument_clear(doc)
    /\ last' = TagCalled("doc_clear", 0)
    /\ UNCHANGED <<cfg, enc, map, ctx, reg, notIndex>>

TagsNext ==
    \/ TaggedAdd
    \/ TaggedUpdate
    \/ TaggedRemove
    \/ TaggedClear

SpecTags == TagsInit /\ [][TagsNext]_vars

\* id is in the posting list of tag in the index of tag field idx
TagListed(ts, id, idx, tag) ==
    tag \in DOMAIN ts.indexes[idx] /\ Contains(ts.indexes[idx][tag], id)

\* the reverse mapping records (idx, tag) for id
TagRecorded(ts, id, idx, tag) ==
    id \in DOMAIN ts.doc_tags /\ Contains(ts.doc_tags[id], <<idx, tag>>)

TagStrings == {<<>>, <<120>>, <<121>>}

\* C27: a DocId is listed under a tag iff the reverse mapping records the
\* tag for it, and a removed document is in no tag posting list
C27_TagsMatchReverseMapping ==
    /\ \A id \in DocIds, idx \in TagIdx, tag \in TagStrings :
         TagListed(doc.tag_system, id, idx, tag) <=> TagRecorded(doc.tag_system, id, idx, tag)
    /\ last.op = "doc_remove" =>
         \A idx \in TagIdx, tag \in TagStrings :
             ~TagListed(doc.tag_system, last.id, idx, tag)

\* a document that had tags was removed
C27_TaggedDocumentRemoved ==
    /\ last.op = "doc_remove"
    /\ last.had


(***************************************************************************)
(* The multi-field search coordinator with the Weight strategy             *)
(* (search/coordinator.rs).  Weights and boosts are small whole numbers,    *)
(* which f32 holds exactly.  A field of the search is [hits, weight,        *)
(* boost]: what the search of the field's index returns for the query, the  *)
(* weight given to add_field and the Option set by set_boost.               *)
(***************************************************************************)

MaxWeight == 3

MaxBoost == 2

NumFields == 2

\* the position of doc_id in scored, 0 when it is not there (the map seen)
RECURSIVE ScoredPos(_, _, _)
ScoredPos(scored, doc_id, i) ==
    IF i > Len(scored) THEN 0
    ELSE IF scored[i][1] = doc_id THEN i
    ELSE ScoredPos(scored, doc_id, i + 1)

RECURSIVE ScoreDocs(_, _, _)
ScoreDocs(docs, score, scored) ==
    IF docs = <<>> THEN scored
    ELSE LET doc_id == Head(docs)
             pos == ScoredPos(scored, doc_id, 1)
         IN ScoreDocs(Tail(docs), score,
                IF pos > 0 THEN [scored EXCEPT ![pos] = <<doc_id, @[2] + score>>]
                ELSE Append(scored, <<doc_id, score>>))

\* results is a sequence of [boost, docs, weight]: boost is the Option
\* options.boost holds for the field's name, weight the third component
RECURSIVE ScoreFields(_, _)
ScoreFields(results, scored) ==
    IF results = <<>> THEN scored
    ELSE LET r == Head(results)
             score == r.weight * OptOr(r.boost, 1)
         IN ScoreFields(Tail(results), ScoreDocs(r.docs, score, scored))

\* sort_by(|a, b| b.1.partial_cmp(&a.1)): stable, descending by score
RECURSIVE InsertByScore(_, _)
InsertByScore(sorted, e) ==
    IF sorted = <<>> THEN <<e>>
    ELSE IF Head(sorted)[2] >= e[2] THEN <<Head(sorted)>> \o InsertByScore(Tail(sorted), e)
    ELSE <<e>> \o sorted

RECURSIVE SortByScore(_, _)
SortByScore(scored, sorted) ==
    IF scored = <<>> THEN sorted
    ELSE SortByScore(Tail(scored), InsertByScore(sorted, Head(scored)))

merge_weight(results) ==
    LET scored == SortByScore(ScoreFields(results, <<>>), <<>>)
    IN [i \in DOMAIN scored |-> scored[i][1]]

\* SearchCoordinator::search with combine = Weight
SearchCoordinator_search(query, fields, limit, offset) ==
    IF query = <<>> THEN <<>>
    ELSE LET field_results ==
                 [i \in DOMAIN fields |->
                     [boost |-> fields[i].boost, docs |-> fields[i].hits,
                      weight |-> OptOr(fields[i].boost, 1) * fields[i].weight]]
             merged == merge_weight(field_results)
         IN SubSeq(merged, offset + 1, Min(offset + limit, Len(merged)))

\* the hits of a field hold no id twice
FieldHits == {h \in IdArrays : \A id \in DocIds : Count(h, id) <= 1}

FieldSearches ==
    [hits : FieldHits, weight : 1..MaxWeight, boost : {<<>>} \cup {<<b>> : b \in 1..MaxBoost}]

CoordinatorSearch ==
    /\ last.op = "new"
    /\ \E query \in {<<>>, <<97>>}, fields \in [1..NumFields -> FieldSearches],
          limit \in 1..MaxLimit, offset \in 0..1 :
         last' = [op |-> "coordinator_search", id |-> 0, text |-> query,
                  input |-> [fields |-> fields, limit |-> limit, offset |-> offset],
                  ids |-> SearchCoordinator_search(query, fields, limit, offset)]
    /\ UNCHANGED <<cfg, enc, doc, map, ctx, reg, notIndex>>

CoordinatorNext == CoordinatorSearch

SpecCoordinator == IntersectInit /\ [][CoordinatorNext]_vars

\* the sum, over the fields whose hits contain id, of field_weight x boost
RECURSIVE TotalWeight(_, _)
TotalWeight(fields, id) ==
    IF fields = <<>> THEN 0
    ELSE (IF Contains(Head(fields).hits, id)
          THEN Head(fields).weight * OptOr(Head(fields).boost, 1) ELSE 0)
         + TotalWeight(Tail(fields), id)

\* C28: with the Weight strategy the ids come back ordered by non-increasing
\* total weight, the total being the sum of field_weight x boost over the
\* fields that hit, each factor applied once
C28_OrderedByTotalWeight ==
    last.op = "coordinator_search" =>
        \A i, j \in DOMAIN last.ids :
            i < j => TotalWeight(last.input.fields, last.ids[i])
                         >= TotalWeight(last.input.fields, last.ids[j])

\* two ids of different total weight are returned and a field has a boost
C28_BoostedFieldsReturned ==
    /\ last.op = "coordinator_search"
    /\ Len(last.ids) = 2
    /\ TotalWeight(last.input.fields, last.ids[1]) # TotalWeight(last.input.fields, last.ids[2])
    /\ \E i \in DOMAIN last.input.fields :
         last.input.fields[i].boost # <<>> /\ last.input.fields[i].boost[1] > 1


(***************************************************************************)
(* ConcurrentSearch (async_.rs).  aix is the AsyncIndex's RwLock together  *)
(* with the ConcurrentSearch being built and executed:                     *)
(*   [searches]  the options pushed by add_search, query set               *)
(*   [tasks]     one per spawned search: [pc, out], pc waiting / locked /   *)
(*               done and out <<>> or <<its result>>                        *)
(*   [finished]  history: the tasks in the order in which they finished     *)
(*   [results]   the Vec execute fills; [pc] building / awaiting / returned *)
(* Another task may add a document while the searches run.                  *)
(***************************************************************************)

MaxSearches == 2

\* "a", "b"
ConcurrentQueries == { <<97>>, <<98>> }

\* the index after add_async(1, "a b"), add_async(2, "b")
SearchedIndex(c) ==
    add_document(c, add_document(c, EmptyIndex, 1, <<97, 32, 98>>, FALSE),
                 2, <<98>>, FALSE)

ConcurrentInit ==
    /\ cfg = Config(FALSE, "strict", 0, FALSE, FALSE)
    /\ map = SearchedIndex(cfg).map
    /\ ctx = SearchedIndex(cfg).ctx
    /\ reg = SearchedIndex(cfg).reg
    /\ last = Op("new", 0, <<>>)
    /\ sc = <<>>
    /\ computed = <<>>
    /\ now = 0
    /\ enc = <<>>
    /\ doc = <<>>
    /\ tgt = <<>>
    /\ bc = <<>>
    /\ aix = [writer |-> FALSE, readers |-> 0, searches |-> <<>>, tasks |-> <<>>,
              finished |-> <<>>, results |-> <<>>, pc |-> "building"]

\* ConcurrentSearch::add_search; execute sets options.query = Some(query)
add_search ==
    /\ aix.pc = "building"
    /\ Len(aix.searches) < MaxSearches
    /\ \E query \in ConcurrentQueries :
         aix' = [aix EXCEPT !.searches = Append(@, DefaultOptions(query))]
    /\ UNCHANGED <<cfg, enc, doc, tgt, bc, map, ctx, reg, last, sc, computed, now>>

\* execute up to the end of its first loop: one task spawned per search
ExecuteSpawn ==
    /\ aix.pc = "building"
    /\ aix' = [aix EXCEPT !.pc = "awaiting",
                          !.tasks = [i \in DOMAIN aix.searches |->
                                        [pc |-> "waiting", out |-> <<>>]]]
    /\ last' = Op("execute", 0, <<>>)
    /\ UNCHANGED <<cfg, enc, doc, tgt, bc, map, ctx, reg, sc, computed, now>>

\* search_async of task i: let index = index.blocking_read()
TaskLock ==
    /\ \E i \in DOMAIN aix.tasks :
         /\ aix.tasks[i].pc = "waiting"
         /\ blocking_read(aix)
         /\ aix' = [aix EXCEPT !.readers = @ + 1, !.tasks[i].pc = "locked"]
    /\ UNCHANGED <<cfg, enc, doc, tgt, bc, map, ctx, reg, last, sc, computed, now>>

\* index.search(&options) of task i, then the read guard is dropped
TaskSearch ==
    /\ \E i \in DOMAIN aix.tasks :
         /\ aix.tasks[i].pc = "locked"
         /\ aix' = [aix EXCEPT !.readers = @ - 1,
                               !.tasks[i] = [pc |-> "done",
                                             out |-> <<search(cfg, Ix, aix.searches[i])>>],
                               !.finished = Append(@, i)]
    /\ UNCHANGED <<cfg, enc, doc, tgt, bc, map, ctx, reg, last, sc, computed, now>>

\* a task of another caller: add_async(3, "a"), the write guard held for
\* the whole of index.add
ConcurrentAdd ==
    /\ blocking_write(aix)
    /\ ~contains(Ix, 3)
    /\ SetIx(add_document(cfg, Ix, 3, <<97>>, FALSE))
    /\ UNCHANGED <<cfg, enc, doc, tgt, bc, aix, last, sc, computed, now>>

\* the handles in the order in which their tasks finish: the next finished
\* task, or one still running when every finished one is collected
NextFinished(a) ==
    IF Len(a.finished) > Len(a.results) THEN a.finished[Len(a.results) + 1]
    ELSE CHOOSE i \in DOMAIN a.tasks : a.tasks[i].pc # "done"

\* the handle the second loop of execute awaits next: handles in the order
\* in which they were pushed
NextHandle(a) == Len(a.results) + 1

\* results.push(handle.await??)
Await ==
    /\ aix.pc = "awaiting"
    /\ Len(aix.results) < Len(aix.tasks)
    /\ aix.tasks[NextHandle(aix)].pc = "done"
    /\ aix' = [aix EXCEPT !.results = Append(@, aix.tasks[NextHandle(aix)].out[1])]
    /\ UNCHANGED <<cfg, enc, doc, tgt, bc, map, ctx, reg, last, sc, computed, now>>

\* Ok(results)
ExecuteReturn ==
    /\ aix.pc = "awaiting"
    /\ Len(aix.results) = Len(aix.tasks)
    /\ aix' = [aix EXCEPT !.pc = "returned"]
    /\ UNCHANGED <<cfg, enc, doc, tgt, bc, map, ctx, reg, last, sc, computed, now>>

ConcurrentNext ==
    \/ add_search
    \/ ExecuteSpawn
    \/ TaskLock
    \/ TaskSearch
    \/ ConcurrentAdd
    \/ Await
    \/ ExecuteReturn

SpecConcurrent == ConcurrentInit /\ [][ConcurrentNext]_vars

\* C29: execute returns one result per submitted search, the i-th being
\* the result the i-th submitted search computed, whatever the order in
\* which the searches finished
C29_ResultsInSubmissionOrder ==
    aix.pc = "returned" =>
        /\ Len(aix.results) = Len(aix.searches)
        /\ \A i \in DOMAIN aix.searches : aix.results[i] = aix.tasks[i].out[1]

\* execute returned after the second search finished before the first, the
\* two with different results
C29_FinishedOutOfOrder ==
    /\ aix.pc = "returned"
    /\ aix.finished = <<2, 1>>
    /\ aix.tasks[1].out # aix.tasks[2].out


(***************************************************************************)
(* The hit and miss counters of either cache, its lock poisoned or not     *)
(***************************************************************************)

CountersNext ==
    \/ (sc # <<>> /\ CacheGet)
    \/ (sc # <<>> /\ CacheSet)
    \/ (sc # <<>> /\ CacheClear)
    \/ (sc # <<>> /\ CachePoison)
    \/ (bc # <<>> /\ ResultGet)
    \/ (bc # <<>> /\ ResultInsert)
    \/ (bc # <<>> /\ ResultPoison)
    \/ Tick

SpecCounters == CachesInit /\ [][CountersNext]_vars

\* the counters as stats() reports them
Hits == IF sc # <<>> THEN SearchCache_stats(sc).hit_count ELSE Cache_stats(bc).hits

Misses == IF sc # <<>> THEN SearchCache_stats(sc).miss_count ELSE Cache_stats(bc).misses

TotalRequests ==
    IF sc # <<>> THEN SearchCache_stats(sc).total_requests
    ELSE Cache_stats(bc).hits + Cache_stats(bc).misses

\* the step is a get of the cache in use
GetStep == last'.op = "get" /\ (last' # last \/ sc' # sc \/ bc' # bc)

\* C30: every get increments exactly one of the hit and the miss counter,
\* also when it finds an expired entry or a poisoned lock, so that hits +
\* misses = total_requests counts the gets since the counters were reset
C30_EveryGetCountsOnce ==
    [][GetStep =>
          /\ Hits' + Misses' = Hits + Misses + 1
          /\ Hits' >= Hits
          /\ Misses' >= Misses
          /\ TotalRequests' = Hits' + Misses']_vars

\* a get was made on a cache whose lock is poisoned
C30_GetOnPoisonedLock ==
    /\ last.op = "get"
    /\ \/ sc # <<>> /\ sc.poisoned
       \/ bc # <<>> /\ bc.poisoned


====
